---- MODULE Spec2Model ----
(***************************************************************************)
(* Model of the asset loaders of wgpu-renderer:                            *)
(*   glTFLoader (src/src/loader.ts)  and  HDRLoader (src/unnamed/part_001).*)
(* JavaScript array indices are 0-based; sequences here are 1-based, so    *)
(* element i of a JS array is seq[i + 1] (see At / Has).                   *)
(***************************************************************************)
EXTENDS Integers, Sequences, FiniteSets, TLC

(***************************************************************************)
(* Bounds of the explored inputs.                                          *)
(***************************************************************************)
MaxNodes == 2
MaxPrims == 2
MaxBuffers == 2
NumVerts == 2

\* an absent (undefined) numeric field of the JSON document
Undef == -1
\* an index that is out of range of every array of the documents explored
Dangling == 99

VARIABLES
  doc,          \* the JSON document the server returns for the .gltf url
  net,          \* per buffer: how the server answers the .bin request
  pc,           \* position of glTFLoader.load
  error,        \* rejection reason of load ("" while none)
  gltf,         \* this.gltf
  fetchState,   \* per buffer: position of its loadBinBuffer call
  fetchCount,   \* per buffer: number of requests issued for its uri
  values,       \* Promise.all's result slots
  buffers,      \* this.buffers
  geometries,   \* this.geometries
  index,        \* forEach position inside generateGeometries
  hdrInput,     \* the .hdr file on the server and how its request is answered
  hdrPc,        \* position of HDRLoader.load
  hdrError,     \* rejection reason of HDRLoader.load ("" while none)
  buffer,       \* this.buffer
  width,        \* this.width
  height,       \* this.height
  data,         \* this.data
  hdrIndex,     \* parseHDR: index, the read position in bytes
  currentPixel, \* parseHDR: currentPixel
  scanline,     \* parseHDR: scanline
  plane,        \* parseHDR: i, the component plane being decoded
  position,     \* parseHDR: position
  controlled,   \* Camera: this.controlled
  moveMode,     \* this.moveMode
  x,            \* this.x
  y,            \* this.y
  yaw,          \* this.yaw, in hundredths of a degree
  pitch,        \* this.pitch, in hundredths of a degree
  distance,     \* this.distance, in hundredths
  target,       \* this.target
  eye,          \* this.eye
  up,           \* this.up
  rotation,     \* this.rotation
  pressed,      \* the mouse: "none", or how its button went down
  sampleCount,  \* RollingAverage: this.sampleCount
  total,        \* this.total
  samples,      \* this.samples
  cursor,       \* this.cursor
  assigned,     \* history: the values assigned so far, oldest first
  texture,      \* mipmaps: the GPUTexture given to copySourceToTexture
  mipPc,        \* position of copySourceToTexture / generateMipmaps
  mipWidth,     \* generateMipmaps: width
  mipHeight,    \* generateMipmaps: height
  baseMipLevel, \* generateMipmaps: baseMipLevel
  passes,       \* the render passes encoded, in order
  hasTimestamp, \* timestamps: this.hasTimestamp
  mapState,     \* this.resultBuffer.mapState
  frame,        \* number of frames drawn
  copies,       \* history: frame and map state of each copy encoded
  mapRequests,  \* history: frame and map state of each mapAsync call
  maps,         \* number of maps that succeeded
  unmaps,       \* number of unmap calls
  fault,        \* start-up: the step of init() that raises (0: none)
  entryPc,      \* position of the entry point, index.ts
  initPc,       \* the step of init() that runs next (0: init() is over)
  renderPromise, \* state of the promise render() returned
  caught,       \* the catch block of index.ts has run
  logged,       \* console.error has been called there
  running,      \* run() has been called: the frame loop is started
  unhandled     \* the rejection was reported as unhandled

gltfVars == <<doc, net, pc, error, gltf, fetchState, fetchCount, values,
              buffers, geometries, index>>

hdrVars == <<hdrInput, hdrPc, hdrError, buffer, width, height, data,
             hdrIndex, currentPixel, scanline, plane, position>>

cameraVars == <<controlled, moveMode, x, y, yaw, pitch, distance,
                target, eye, up, rotation>>

\* the mouse, as the page's user holds it
pointerVars == <<pressed>>

rollVars == <<sampleCount, total, samples, cursor, assigned>>

\* the parts of the renderer followed besides the loaders and the camera
mipVars == <<texture, mipPc, mipWidth, mipHeight, baseMipLevel, passes>>

timeVars == <<hasTimestamp, mapState, frame, copies, mapRequests, maps,
              unmaps>>

initVars == <<fault, entryPc, initPc, renderPromise, caught, logged, running,
              unhandled>>

rendererVars == <<rollVars, mipVars, timeVars, initVars>>

vars == <<gltfVars, hdrVars, cameraVars, pointerVars, rendererVars>>

\* what the steps of one component leave alone
besidesGltf == <<hdrVars, cameraVars, pointerVars, rendererVars>>
besidesHdr == <<gltfVars, cameraVars, pointerVars, rendererVars>>
besidesCamera == <<gltfVars, hdrVars, rendererVars>>
besidesRenderer == <<gltfVars, hdrVars, cameraVars, pointerVars>>
besidesRoll == <<besidesRenderer, mipVars, timeVars, initVars>>
besidesMip == <<besidesRenderer, rollVars, timeVars, initVars>>
besidesTime == <<besidesRenderer, rollVars, mipVars, initVars>>
besidesInit == <<besidesRenderer, rollVars, mipVars, timeVars>>

(***************************************************************************)
(* JavaScript array access.                                                *)
(***************************************************************************)
Has(arr, i) == i \in 0..(Len(arr) - 1)
At(arr, i) == arr[i + 1]

\* an unassigned field of the loader; an assigned one carries its items
Unassigned == [defined |-> FALSE]
Assigned(value) == [defined |-> TRUE, value |-> value]

\* a hole of `new Array(n)`
Hole == [present |-> FALSE]

(***************************************************************************)
(* loader.ts 11-28: format name = ComponentType[..] + ComponentCount[..].  *)
(* The concatenated string is kept as the pair of its two parts.           *)
(***************************************************************************)
ComponentType(ct) ==
  CASE ct = 5120 -> "sint8"
    [] ct = 5121 -> "uint8"
    [] ct = 5122 -> "sint16"
    [] ct = 5123 -> "uint16"
    [] ct = 5125 -> "uint32"
    [] ct = 5126 -> "float32"
    [] OTHER -> "undefined"

ComponentCount(type) ==
  CASE type = "SCALAR" -> ""
    [] type = "VEC2" -> "x2"
    [] type = "VEC3" -> "x3"
    [] type = "VEC4" -> "x4"
    [] type = "MAT2" -> "x8"
    [] type = "MAT3" -> "x12"
    [] type = "MAT4" -> "x16"
    [] OTHER -> "undefined"

Format(accessor) ==
  <<ComponentType(accessor.componentType), ComponentCount(accessor.type)>>

\* the call with no argument, calculateByteLength()
NoFormat == <<"undefined", "undefined">>

\* utils.ts 26-39
calculateByteLength(type) ==
  CASE type = <<"float32", "">> -> 4
    [] type = <<"float32", "x2">> -> 8
    [] type = <<"float32", "x3">> -> 12
    [] type = <<"float32", "x4">> -> 16
    [] OTHER -> 0

(***************************************************************************)
(* The documents explored.  A document is described by a parameter record  *)
(* and built by MakeDoc as the JSON subset of types/glTF.d.ts that the     *)
(* loader reads.  Mesh 0 has only well-formed primitives; mesh 1, present  *)
(* when flaw # "none", ends in one primitive carrying the flaw.            *)
(***************************************************************************)
IndexCount == NumVerts + 1

\* byte width of one component (glTF 2.0 accessor.componentType)
ComponentWidth(ct) ==
  CASE ct \in {5120, 5121} -> 1
    [] ct \in {5122, 5123} -> 2
    [] OTHER -> 4

Modes == {Undef, 4, 1}
FlawKinds == {"accessor", "bufferView", "material", "texture", "image"}

SeqsUpTo(S, n) == UNION {[1..k -> S] : k \in 1..n}

\* accessor.type of an attribute with n components
Vec(n) == CASE n = 2 -> "VEC2" [] n = 3 -> "VEC3" [] OTHER -> "VEC4"

\* the usual attribute types (VEC3, VEC2, VEC3) and two other declarations
Standard == <<3, 2, 3>>
VecTypes == {Standard, <<3, 4, 3>>, <<4, 2, 4>>}

PositionLength(p) == 4 * p.vec[1] * NumVerts
TexCoordLength(p) == ComponentWidth(p.texCT) * p.vec[2] * NumVerts
NormalLength(p) == 4 * p.vec[3] * NumVerts
IndexLength(p) == ComponentWidth(p.indexCT) * IndexCount
AttributeLength(p) == PositionLength(p) + TexCoordLength(p) + NormalLength(p)

MakeBuffers(p) ==
  [i \in 1..p.nb |->
     [uri |-> i - 1,
      byteLength |->
        IF p.nb = 1 THEN AttributeLength(p) + IndexLength(p)
        ELSE IF i = 1 THEN AttributeLength(p)
        ELSE IF i = p.nb THEN IndexLength(p)
        ELSE 4]]

MakeBufferViews(p) ==
  << [buffer |-> 0, byteOffset |-> 0, byteLength |-> PositionLength(p)],
     [buffer |-> 0, byteOffset |-> PositionLength(p),
      byteLength |-> TexCoordLength(p)],
     [buffer |-> 0, byteOffset |-> PositionLength(p) + TexCoordLength(p),
      byteLength |-> NormalLength(p)],
     [buffer |-> p.nb - 1,
      byteOffset |-> IF p.nb = 1 THEN AttributeLength(p) ELSE 0,
      byteLength |-> IndexLength(p)] >>

MakeAccessors(p) ==
  << [bufferView |-> 0, componentType |-> 5126, count |-> NumVerts,
      type |-> Vec(p.vec[1])],
     [bufferView |-> 1, componentType |-> p.texCT, count |-> NumVerts,
      type |-> Vec(p.vec[2])],
     [bufferView |-> 2, componentType |-> 5126, count |-> NumVerts,
      type |-> Vec(p.vec[3])],
     [bufferView |-> 3, componentType |-> p.indexCT, count |-> IndexCount,
      type |-> "SCALAR"] >>
  \o (IF p.flaw = "bufferView"
      THEN << [bufferView |-> Dangling, componentType |-> 5126,
               count |-> NumVerts, type |-> "VEC3"] >>
      ELSE << >>)

\* a material is kept as the five textureInfo indices the loader reads
GoodMaterial(t) ==
  [baseColorTexture |-> t, metallicRoughnessTexture |-> t,
   normalTexture |-> t, emissiveTexture |-> t, occlusionTexture |-> t]

MakeMaterials(p) ==
  << GoodMaterial(0) >>
  \o (IF p.flaw = "texture"
      THEN << [GoodMaterial(0) EXCEPT !.occlusionTexture = Dangling] >>
      ELSE IF p.flaw = "image" THEN << GoodMaterial(1) >>
      ELSE << >>)

MakeTextures(p) ==
  << [source |-> 0] >>
  \o (IF p.flaw = "image" THEN << [source |-> Dangling] >> ELSE << >>)

GoodPrimitive(mode) ==
  [POSITION |-> 0, TEXCOORD_0 |-> 1, NORMAL |-> 2, indices |-> 3,
   material |-> 0, mode |-> mode]

FlawedPrimitive(p) ==
  LET g == GoodPrimitive(p.flawMode) IN
  CASE p.flaw = "accessor" -> [g EXCEPT !.indices = Dangling]
    [] p.flaw = "bufferView" -> [g EXCEPT !.NORMAL = 4]
    [] p.flaw = "material" -> [g EXCEPT !.material = Dangling]
    [] OTHER -> [g EXCEPT !.material = 1]

MakeMeshes(p) ==
  << [primitives |-> [k \in 1..Len(p.mesh0) |-> GoodPrimitive(p.mesh0[k])]] >>
  \o (IF p.flaw = "none" THEN << >>
      ELSE << [primitives |->
                 [k \in 1..p.flawPrefix |-> GoodPrimitive(4)]
                 \o << FlawedPrimitive(p) >>] >>)

\* the transform properties a node may carry; each is absent (Undef) or
\* present with the array of numbers that the given name stands for
NodeProperties == {"matrix", "scale", "translation", "rotation"}

MakeNode(p, n) ==
  [mesh |-> p.refs[n],
   matrix |-> IF "matrix" \in p.trs THEN 16 ELSE Undef,
   scale |-> IF "scale" \in p.trs THEN 3 ELSE Undef,
   translation |-> IF "translation" \in p.trs THEN 30 ELSE Undef,
   rotation |-> IF "rotation" \in p.trs THEN 4 ELSE Undef]

MakeDoc(p) ==
  [asset |-> [version |-> p.version],
   buffers |-> MakeBuffers(p),
   bufferViews |-> MakeBufferViews(p),
   accessors |-> MakeAccessors(p),
   meshes |-> MakeMeshes(p),
   nodes |-> [n \in 1..Len(p.refs) |-> MakeNode(p, n)],
   materials |-> MakeMaterials(p),
   textures |-> MakeTextures(p),
   images |-> << [uri |-> 0] >>]

\* the index values the .bin file stores for the indices accessor
StoredIndices == [k \in 1..IndexCount |-> k % NumVerts]

\* the bytes of value v in a little-endian component of the given width
LittleEndian(v, bytesPerElement) ==
  [j \in 1..bytesPerElement |-> (v \div (256 ^ (j - 1))) % 256]

\* the .bin file of buffer i of document g: the indices in the component
\* type of their accessor where bufferView 3 lies, vertex data elsewhere
BinBytes(g, i) ==
  LET indexView == g.bufferViews[4]
      bytesPerElement == ComponentWidth(g.accessors[4].componentType)
  IN [j \in 1..g.buffers[i].byteLength |->
        LET o == j - 1 - indexView.byteOffset IN
        IF indexView.buffer = i - 1 /\ o \in 0..(indexView.byteLength - 1)
        THEN LittleEndian(StoredIndices[(o \div bytesPerElement) + 1],
                          bytesPerElement)[(o % bytesPerElement) + 1]
        ELSE (7 * j + i) % 256]

\* documents that vary the scene shape and the place of one dangling index
ShapeParams ==
  [version : {"2.0"}, nb : {1}, indexCT : {5123}, texCT : {5126},
   mesh0 : SeqsUpTo(Modes, MaxPrims), flaw : {"none"}, flawMode : {4},
   flawPrefix : {0}, refs : SeqsUpTo({0}, MaxNodes), trs : {{}},
   vec : {Standard}]
  \cup
  [version : {"2.0"}, nb : {1}, indexCT : {5123}, texCT : {5126},
   mesh0 : SeqsUpTo({4}, MaxPrims), flaw : FlawKinds, flawMode : {4, 1},
   flawPrefix : 0..(MaxPrims - 1), refs : SeqsUpTo({0, 1}, MaxNodes),
   trs : {{}}, vec : {Standard}]

\* documents that vary the declared component types
TypeParams ==
  [version : {"2.0"}, nb : 1..MaxBuffers, indexCT : {5121, 5123, 5125},
   texCT : {5126, 5123}, mesh0 : {<<4>>, <<Undef>>}, flaw : {"none"},
   flawMode : {4}, flawPrefix : {0}, refs : {<<0>>}, trs : {{}},
   vec : VecTypes]

\* documents that vary the version and the number of buffers
NetParams ==
  [version : {"2.0", "1.0"}, nb : 1..MaxBuffers, indexCT : {5123},
   texCT : {5126}, mesh0 : {<<4>>}, flaw : {"none"}, flawMode : {4},
   flawPrefix : {0}, refs : {<<0>>}, trs : {{}}, vec : {Standard}]

\* documents that vary the nodes: with or without a mesh, and with every
\* combination of matrix, scale, translation and rotation
NodeParams ==
  [version : {"2.0"}, nb : {1}, indexCT : {5123}, texCT : {5126},
   mesh0 : {<<4>>}, flaw : {"none"}, flawMode : {4}, flawPrefix : {0},
   refs : SeqsUpTo({0, Undef}, MaxNodes), trs : SUBSET NodeProperties,
   vec : {Standard}]

\* how the server answers one .bin request
Answers == {"ok", "short", "notOk", "reject"}

(***************************************************************************)
(* Typed-array views, loader.ts 146-150 / 222-226:                         *)
(*   new T(buffer, byteOffset, byteLength / T.BYTES_PER_ELEMENT)           *)
(* A view on an undefined buffer is the empty array (ToIndex(undefined) =  *)
(* 0); a misaligned or overlong view throws RangeError; the length         *)
(* argument is truncated to an integer.                                    *)
(***************************************************************************)
TypedArrayView(bufs, bufferView, bytesPerElement) ==
  IF ~Has(bufs, bufferView.buffer)
  THEN [ok |-> TRUE, length |-> 0]
  ELSE LET length == bufferView.byteLength \div bytesPerElement IN
       IF \/ bufferView.byteOffset % bytesPerElement # 0
          \/ bufferView.byteOffset + length * bytesPerElement
               > At(bufs, bufferView.buffer).byteLength
       THEN [ok |-> FALSE, length |-> 0]
       ELSE [ok |-> TRUE, length |-> length]

\* loader.ts 139-145, 153-159, 167-173, 217-218: accessor, then its view
AccessorResolves(g, i) ==
  /\ Has(g.accessors, i)
  /\ Has(g.bufferViews, At(g.accessors, i).bufferView)

BufferViewOf(g, i) == At(g.bufferViews, At(g.accessors, i).bufferView)

\* loader.ts 230-252: textureInfo.index -> texture.source -> image.uri
TextureResolves(g, t) ==
  /\ Has(g.textures, t)
  /\ Has(g.images, At(g.textures, t).source)

ImageURI(g, t) == At(g.images, At(g.textures, t).source).uri

MaterialResolves(g, m) ==
  /\ Has(g.materials, m)
  /\ TextureResolves(g, At(g.materials, m).baseColorTexture)
  /\ TextureResolves(g, At(g.materials, m).metallicRoughnessTexture)
  /\ TextureResolves(g, At(g.materials, m).normalTexture)
  /\ TextureResolves(g, At(g.materials, m).emissiveTexture)
  /\ TextureResolves(g, At(g.materials, m).occlusionTexture)

\* loader.ts 134: primitives the loader does not skip
Qualifies(primitive) == ~(primitive.mode # Undef /\ primitive.mode # 4)

\* loader.ts 222-226: indices = new Uint16Array(indexBuffer, byteOffset,
\* indexBufferView.byteLength / Uint16Array.BYTES_PER_ELEMENT)
IndicesView(g, bufs, primitive) ==
  TypedArrayView(bufs, BufferViewOf(g, primitive.indices), 2)

\* element k of a Uint16Array on the bytes of a buffer (little-endian)
Uint16At(bytes, byteOffset, k) ==
  bytes[byteOffset + 2 * k + 1] + 256 * bytes[byteOffset + 2 * k + 2]

\* loader.ts 219-226: the elements of indices
IndicesValues(g, bufs, primitive) ==
  LET indexBufferView == BufferViewOf(g, primitive.indices) IN
  [k \in 1..IndicesView(g, bufs, primitive).length |->
     Uint16At(At(bufs, indexBufferView.buffer).bytes,
              indexBufferView.byteOffset, k - 1)]

\* loader.ts 180-183
ArrayStride(g, primitive) ==
  calculateByteLength(Format(At(g.accessors, primitive.POSITION)))
  + calculateByteLength(Format(At(g.accessors, primitive.TEXCOORD_0)))
  + calculateByteLength(Format(At(g.accessors, primitive.NORMAL)))

\* loader.ts 193: the interleave loop writes one vertex every stride floats
stride == 8

\* loader.ts 186-189: new Float32Array(count * arrayStride / 4)
VerticesLength(g, primitive) ==
  (At(g.accessors, primitive.POSITION).count * ArrayStride(g, primitive))
    \div 4

\* a value of vertices: 0.0 as allocated, or element number `element` of
\* positionBuffer, texCoordlBuffer or normalBuffer
Zero == [buffer |-> "none", element |-> 0]
Element(attribute, element) == [buffer |-> attribute, element |-> element]

\* TypedArray.prototype.set(source, offset) throws RangeError when the
\* source does not fit from offset on
SetThrows(array, source, offset) == offset + Len(source) > Len(array)

TypedArraySet(array, source, offset) ==
  [k \in 1..Len(array) |->
     IF k - 1 - offset \in 0..(Len(source) - 1) THEN source[k - offset]
     ELSE array[k]]

\* loader.ts 194-214: the interleave loop from vertex i on.  pOffset and
\* nOffset are 3 * i and tOffset is 2 * i at the start of iteration i.
RECURSIVE Interleave(_, _, _)
Interleave(vertices, i, count) ==
  IF i >= count THEN [error |-> "", vertices |-> vertices]
  ELSE LET positionArray == [c \in 1..3 |-> Element("position", 3 * i + c - 1)]
           texCoordArray == [c \in 1..2 |-> Element("texCoord", 2 * i + c - 1)]
           normalArray == [c \in 1..3 |-> Element("normal", 3 * i + c - 1)]
           afterPosition == TypedArraySet(vertices, positionArray, stride * i)
           afterTexCoord ==
             TypedArraySet(afterPosition, texCoordArray, stride * i + 3)
           afterNormal == TypedArraySet(afterTexCoord, normalArray, stride * i + 5)
       IN IF \/ SetThrows(vertices, positionArray, stride * i)
             \/ SetThrows(afterPosition, texCoordArray, stride * i + 3)
             \/ SetThrows(afterTexCoord, normalArray, stride * i + 5)
          THEN [error |-> "RangeError", vertices |-> vertices]
          ELSE Interleave(afterNormal, i + 1, count)

\* loader.ts 186-214: vertices, allocated and filled
Vertices(g, primitive) ==
  Interleave([k \in 1..VerticesLength(g, primitive) |-> Zero], 0,
             At(g.accessors, primitive.POSITION).count)

\* a model matrix is the sequence of wgpu-matrix calls that computed it,
\* each with the node property it was given
Step(fn, arg) == [fn |-> fn, arg |-> arg]

\* a composition in the order translation, rotation, scale
ModelMatrixTRS(node) ==
  IF node.matrix # Undef
  THEN <<Step("mat4.create", node.matrix)>>
  ELSE <<Step("mat4.identity", Undef)>>
       \o (IF node.translation # Undef
           THEN <<Step("mat4.translate", node.translation)>> ELSE << >>)
       \o (IF node.rotation # Undef
           THEN <<Step("mat4.mul(mat4.fromQuat)", node.rotation)>> ELSE << >>)
       \o (IF node.scale # Undef
           THEN <<Step("mat4.scale", node.scale)>> ELSE << >>)

\* loader.ts 112-130: the model matrix of a node
ModelMatrix(node) ==
  IF node.matrix # Undef
  THEN <<Step("mat4.create", node.matrix)>>
  ELSE <<Step("mat4.identity", Undef)>>
       \o (IF node.scale # Undef
           THEN <<Step("mat4.scale", node.scale)>> ELSE << >>)
       \o (IF node.translation # Undef
           THEN <<Step("mat4.translate", node.translation)>> ELSE << >>)
       \o (IF node.rotation # Undef
           THEN <<Step("mat4.mul(mat4.fromQuat)", node.rotation)>> ELSE << >>)

\* loader.ts 254-279: the record stored for a primitive that resolves
MakeGeometry(g, bufs, model, primitive) ==
  LET positionType == Format(At(g.accessors, primitive.POSITION))
      texCoordType == Format(At(g.accessors, primitive.TEXCOORD_0))
      normalType == Format(At(g.accessors, primitive.NORMAL))
      material == At(g.materials, primitive.material)
  IN [present |-> TRUE,
      primitive |-> primitive,  \* history: the primitive it was built from
      model |-> model,
      vertices |-> [length |-> VerticesLength(g, primitive),
                    values |-> Vertices(g, primitive).vertices],
      arrayStride |-> ArrayStride(g, primitive),
      position |-> [format |-> positionType,
                    offset |-> calculateByteLength(NoFormat)],
      normal |-> [format |-> normalType,
                  offset |-> calculateByteLength(positionType)
                             + calculateByteLength(texCoordType)],
      texCoord |-> [format |-> texCoordType,
                    offset |-> calculateByteLength(positionType)],
      indices |-> [length |-> IndicesView(g, bufs, primitive).length,
                   values |-> IndicesValues(g, bufs, primitive)],
      textures |->
        [baseColorURI |-> ImageURI(g, material.baseColorTexture),
         metallicRoughnessURI |->
           ImageURI(g, material.metallicRoughnessTexture),
         normalURI |-> ImageURI(g, material.normalTexture),
         emissiveURI |-> ImageURI(g, material.emissiveTexture),
         occlusionURI |-> ImageURI(g, material.occlusionTexture)]]

\* the first error thrown while processing one qualifying primitive, in the
\* order of loader.ts 138-252; "" if none.  Reading a field of an array
\* element that does not exist throws TypeError.
PrimitiveError(g, bufs, primitive) ==
  IF ~AccessorResolves(g, primitive.POSITION) THEN "TypeError"
  ELSE IF ~TypedArrayView(bufs, BufferViewOf(g, primitive.POSITION), 4).ok
       THEN "RangeError"
  ELSE IF ~AccessorResolves(g, primitive.TEXCOORD_0) THEN "TypeError"
  ELSE IF ~TypedArrayView(bufs, BufferViewOf(g, primitive.TEXCOORD_0), 4).ok
       THEN "RangeError"
  ELSE IF ~AccessorResolves(g, primitive.NORMAL) THEN "TypeError"
  ELSE IF ~TypedArrayView(bufs, BufferViewOf(g, primitive.NORMAL), 4).ok
       THEN "RangeError"
  ELSE IF Vertices(g, primitive).error # "" THEN Vertices(g, primitive).error
  ELSE IF ~AccessorResolves(g, primitive.indices) THEN "TypeError"
  ELSE IF ~IndicesView(g, bufs, primitive).ok THEN "RangeError"
  ELSE IF ~MaterialResolves(g, primitive.material) THEN "TypeError"
  ELSE ""

\* loader.ts 254: this.geometries[index] = {...}
StoreGeometry(geoms, idx, geometry) == [geoms EXCEPT ![idx + 1] = geometry]

\* loader.ts 133-280: mesh.primitives.map(...) from primitive k on; a throw
\* leaves the entries written so far in place
RECURSIVE MapPrimitives(_, _, _, _, _, _)
MapPrimitives(g, bufs, geoms, idx, primitives, k) ==
  IF k > Len(primitives) THEN [error |-> "", geometries |-> geoms]
  ELSE IF ~Qualifies(primitives[k])
       THEN MapPrimitives(g, bufs, geoms, idx, primitives, k + 1)
  ELSE IF PrimitiveError(g, bufs, primitives[k]) # ""
       THEN [error |-> PrimitiveError(g, bufs, primitives[k]),
             geometries |-> geoms]
  ELSE MapPrimitives(g, bufs,
                     StoreGeometry(geoms, idx,
                                   MakeGeometry(g, bufs,
                                                ModelMatrix(At(g.nodes, idx)),
                                                primitives[k])),
                     idx, primitives, k + 1)

\* a callback that catches and drops whatever a primitive throws
ProcessNodeSwallowing(g, bufs, geoms, idx) ==
  LET node == At(g.nodes, idx) IN
  IF ~Has(g.meshes, node.mesh)
  THEN [error |-> "", geometries |-> geoms]
  ELSE [error |-> "",
        geometries |-> MapPrimitives(g, bufs, geoms, idx,
                         At(g.meshes, node.mesh).primitives, 1).geometries]

\* loader.ts 111-281: the forEach callback for node number idx
ProcessNode(g, bufs, geoms, idx) ==
  LET node == At(g.nodes, idx) IN
  IF ~Has(g.meshes, node.mesh)
  THEN [error |-> "TypeError", geometries |-> geoms]
  ELSE MapPrimitives(g, bufs, geoms, idx,
                     At(g.meshes, node.mesh).primitives, 1)

(***************************************************************************)
(* glTFLoader.load as a process.  Every await is a point where the load    *)
(* is suspended; the buffer requests run concurrently under Promise.all.   *)
(***************************************************************************)
NumBuffers == Len(doc.buffers)

GltfInputs ==
  {[p |-> p, net |-> [json |-> "ok", bin |-> [i \in 1..p.nb |-> "ok"]]] :
     p \in ShapeParams \cup TypeParams \cup NodeParams}
  \cup
  UNION {[p : {p}, net : [json : {"ok", "notOk", "reject"},
                          bin : [1..p.nb -> Answers]]] : p \in NetParams}

GltfInit ==
  /\ \E in \in GltfInputs : doc = MakeDoc(in.p) /\ net = in.net
  /\ pc = "idle"
  /\ error = ""
  /\ gltf = Unassigned
  /\ fetchState = [i \in 1..NumBuffers |-> "idle"]
  /\ fetchCount = [i \in 1..NumBuffers |-> 0]
  /\ values = [i \in 1..NumBuffers |-> Hole]
  /\ buffers = Unassigned
  /\ geometries = Unassigned
  /\ index = 0

\* loader.ts 64-68 and 78: load() runs up to the fetch of the document
Load ==
  /\ pc = "idle"
  /\ pc' = "loadJSON"
  /\ UNCHANGED <<doc, net, error, gltf, fetchState, fetchCount, values,
                 buffers, geometries, index>>
  /\ UNCHANGED besidesGltf

\* loadJSON without the version test of loader.ts 84-86
LoadJSONErrorNoVersionTest ==
  IF net.json = "reject" THEN "NetworkError"
  ELSE IF net.json = "notOk" THEN "FetchFailed"
  ELSE ""

\* loader.ts 78-87: the document arrives (or its fetch fails)
LoadJSONError ==
  IF net.json = "reject" THEN "NetworkError"
  ELSE IF net.json = "notOk" THEN "FetchFailed"
  ELSE IF "2.0" # doc.asset.version THEN "UnsupportedVersion"
  ELSE ""

LoadJSON ==
  /\ pc = "loadJSON"
  /\ gltf' = IF net.json = "ok" THEN Assigned(doc) ELSE gltf
  /\ error' = LoadJSONError
  /\ pc' = IF LoadJSONError = "" THEN "loadBinBuffers" ELSE "rejected"
  /\ UNCHANGED <<doc, net, fetchState, fetchCount, values, buffers,
                 geometries, index>>
  /\ UNCHANGED besidesGltf

\* loader.ts 89-94: map(this.loadBinBuffer) issues one fetch per buffer
IssueFetches(count) == [i \in DOMAIN count |-> count[i] + 1]

LoadBinBuffers ==
  /\ pc = "loadBinBuffers"
  /\ fetchState' = [i \in 1..NumBuffers |-> "fetch"]
  /\ fetchCount' = IssueFetches(fetchCount)
  /\ pc' = "awaitAll"
  /\ UNCHANGED <<doc, net, error, gltf, values, buffers, geometries, index>>
  /\ UNCHANGED besidesGltf

\* a join that swallows rejections (Promise.allSettled instead of all)
RejectAllSettled(reason) ==
  /\ pc' = pc
  /\ error' = error

\* Promise.all rejects with the first rejection; later ones are dropped
RejectAll(reason) ==
  /\ pc' = IF pc = "awaitAll" THEN "rejected" ELSE pc
  /\ error' = IF pc = "awaitAll" THEN reason ELSE error

\* loader.ts 94-97: the response of request i arrives
FetchResponse(i) ==
  /\ fetchState[i] = "fetch"
  /\ IF net.bin[i] \in {"reject", "notOk"}
     THEN /\ fetchState' = [fetchState EXCEPT ![i] = "rejected"]
          /\ RejectAll(IF net.bin[i] = "reject" THEN "NetworkError"
                       ELSE "FetchFailed")
     ELSE /\ fetchState' = [fetchState EXCEPT ![i] = "arrayBuffer"]
          /\ UNCHANGED <<pc, error>>
  /\ UNCHANGED <<doc, net, gltf, fetchCount, values, buffers, geometries,
                 index>>
  /\ UNCHANGED besidesGltf

\* the bytes the server sends for buffer i
FetchedBuffer(i) ==
  LET sent == IF net.bin[i] = "short"
              THEN doc.buffers[i].byteLength - 1
              ELSE doc.buffers[i].byteLength
  IN [uri |-> doc.buffers[i].uri,
      byteLength |-> sent,
      bytes |-> SubSeq(BinBytes(doc, i), 1, sent)]

\* a length test that only notices buffers that are too long
WrongByteLengthTooLongOnly(arrayBuffer, declared) ==
  arrayBuffer.byteLength > declared.byteLength

\* a loader that accepts whatever length arrives
WrongByteLengthIgnored(arrayBuffer, declared) == FALSE

\* loader.ts 100: arrayBuffer.byteLength !== buffer.byteLength
WrongByteLength(arrayBuffer, declared) ==
  arrayBuffer.byteLength # declared.byteLength

\* a join that keeps the results in the order in which they arrive
PromiseAllSlotByArrival(i) ==
  Cardinality({j \in 1..NumBuffers : fetchState[j] = "resolved"}) + 1

\* Promise.all: the result of the i-th promise is element i of the array
PromiseAllSlot(i) == i

\* loader.ts 99-104: the body of response i arrives
ArrayBufferDone(i) ==
  /\ fetchState[i] = "arrayBuffer"
  /\ IF WrongByteLength(FetchedBuffer(i), gltf.value.buffers[i])
     THEN /\ fetchState' = [fetchState EXCEPT ![i] = "rejected"]
          /\ RejectAll("SizeMismatch")
          /\ UNCHANGED values
     ELSE /\ fetchState' = [fetchState EXCEPT ![i] = "resolved"]
          /\ values' = [values EXCEPT ![PromiseAllSlot(i)] = FetchedBuffer(i)]
          /\ UNCHANGED <<pc, error>>
  /\ UNCHANGED <<doc, net, gltf, fetchCount, buffers, geometries, index>>
  /\ UNCHANGED besidesGltf

\* a join that settles as soon as one request has resolved (Promise.race)
LoadBinBuffersDoneOnFirst ==
  /\ pc = "awaitAll"
  /\ \E i \in 1..NumBuffers : fetchState[i] = "resolved"
  /\ buffers' = Assigned(values)
  /\ pc' = "generateGeometries"
  /\ UNCHANGED <<doc, net, error, gltf, fetchState, fetchCount, values,
                 geometries, index>>
  /\ UNCHANGED besidesGltf

\* loader.ts 90: every request resolved; this.buffers = the joined results
LoadBinBuffersDone ==
  /\ pc = "awaitAll"
  /\ \A i \in 1..NumBuffers : fetchState[i] = "resolved"
  /\ buffers' = Assigned(values)
  /\ pc' = "generateGeometries"
  /\ UNCHANGED <<doc, net, error, gltf, fetchState, fetchCount, values,
                 geometries, index>>
  /\ UNCHANGED besidesGltf

\* loader.ts 108-109: this.geometries = new Array(nodes.length)
NewArray(n) == [k \in 1..n |-> Hole]

GenerateBegin ==
  /\ pc = "generateGeometries"
  /\ geometries' = Assigned(NewArray(Len(gltf.value.nodes)))
  /\ index' = 0
  /\ pc' = "forEach"
  /\ UNCHANGED <<doc, net, error, gltf, fetchState, fetchCount, values,
                 buffers>>
  /\ UNCHANGED besidesGltf

\* loader.ts 111-281: one call of the forEach callback
GenerateNode ==
  /\ pc = "forEach"
  /\ index < Len(gltf.value.nodes)
  /\ LET r == ProcessNode(gltf.value, buffers.value, geometries.value, index)
     IN /\ geometries' = Assigned(r.geometries)
        /\ error' = r.error
        /\ pc' = IF r.error = "" THEN "forEach" ELSE "rejected"
        /\ index' = IF r.error = "" THEN index + 1 ELSE index
  /\ UNCHANGED <<doc, net, gltf, fetchState, fetchCount, values, buffers>>
  /\ UNCHANGED besidesGltf

\* loader.ts 70-71: generateGeometries returns and load() fulfils
LoadDone ==
  /\ pc = "forEach"
  /\ index = Len(gltf.value.nodes)
  /\ pc' = "fulfilled"
  /\ UNCHANGED <<doc, net, error, gltf, fetchState, fetchCount, values,
                 buffers, geometries, index>>
  /\ UNCHANGED besidesGltf

GltfNext ==
  \/ Load
  \/ LoadJSON
  \/ LoadBinBuffers
  \/ \E i \in 1..NumBuffers : FetchResponse(i)
  \/ \E i \in 1..NumBuffers : ArrayBufferDone(i)
  \/ LoadBinBuffersDone
  \/ GenerateBegin
  \/ GenerateNode
  \/ LoadDone

\* glTFLoader.getGeometries(), loader.ts 73-75
getGeometries == geometries

(***************************************************************************)
(* Properties of glTFLoader.load                                           *)
(***************************************************************************)
Buffers == 1..NumBuffers

\* the response of request i has arrived and was a failure
FetchFailed(i) ==
  /\ net.bin[i] \in {"notOk", "reject"}
  /\ fetchState[i] \notin {"idle", "fetch"}

\* the body of request i has arrived with a length other than the declared
Mismatched(i) ==
  /\ net.bin[i] = "short"
  /\ fetchState[i] \notin {"idle", "fetch", "arrayBuffer"}

\* C1: a document whose asset.version is not "2.0" makes load fail with the
\* unsupported-version error, and no buffer request is ever issued for it:
\* the request count of every buffer uri is 0 when the error is raised and
\* in every later state.
C1_VersionCheckedBeforeFetch ==
  /\ doc.asset.version # "2.0" => \A i \in Buffers : fetchCount[i] = 0
  /\ (gltf.defined /\ gltf.value.asset.version # "2.0")
       => pc = "rejected" /\ error = "UnsupportedVersion"

C1_Witness ==
  /\ pc = "rejected"
  /\ error = "UnsupportedVersion"
  /\ NumBuffers >= 2

\* C2: once one buffer request has failed (non-ok response or rejection),
\* in whatever order the other requests complete, the load is rejected,
\* generateGeometries has not started, this.buffers holds no buffer of the
\* load, and no uri has been requested twice.
C2_FailFastJoin ==
  (\E i \in Buffers : FetchFailed(i))
    => /\ pc = "rejected"
       /\ ~buffers.defined
       /\ ~geometries.defined
       /\ \A j \in Buffers : fetchCount[j] <= 1

C2_Witness ==
  \E i, j \in Buffers :
    /\ FetchFailed(i)
    /\ fetchState[j] = "resolved"
    /\ pc = "rejected"

\* C3 as stated: a fetched buffer whose length differs from the declared
\* byteLength makes load fail with the size-mismatch error and leaves
\* getGeometries() without any Geometry.
C3_Original ==
  (\E i \in Buffers : Mismatched(i))
    => /\ pc = "rejected"
       /\ error = "SizeMismatch"
       /\ ~getGeometries.defined

\* C3 amended: a fetched buffer whose length differs from the declared
\* byteLength makes load fail, with the size-mismatch error unless the
\* request of another buffer has failed, in which case the error may be
\* that request's; getGeometries() yields no Geometry.
C3_SizeMismatchFails ==
  (\E i \in Buffers : Mismatched(i))
    => /\ pc = "rejected"
       /\ \/ error = "SizeMismatch"
          \/ \E j \in Buffers :
               /\ FetchFailed(j)
               /\ error = IF net.bin[j] = "reject" THEN "NetworkError"
                          ELSE "FetchFailed"
       /\ ~getGeometries.defined

C3_Witness ==
  /\ \E i \in Buffers : Mismatched(i)
  /\ error = "SizeMismatch"
  /\ \E j \in Buffers : fetchState[j] = "resolved"

\* number of elements of a sequence that satisfy Test
CountIf(seq, Test(_)) == Cardinality({k \in 1..Len(seq) : Test(seq[k])})

QualifyingOfNode(node) ==
  IF Has(doc.meshes, node.mesh)
  THEN CountIf(At(doc.meshes, node.mesh).primitives, Qualifies)
  ELSE 0

RECURSIVE QualifyingPrimitives(_)
QualifyingPrimitives(k) ==
  IF k > Len(doc.nodes) THEN 0
  ELSE QualifyingOfNode(doc.nodes[k]) + QualifyingPrimitives(k + 1)

IsPresent(entry) == entry.present

\* C4: after a successful load the list holds exactly one Geometry per
\* qualifying primitive (mode undefined or 4) of the nodes' meshes.
C4_OneGeometryPerPrimitive ==
  pc = "fulfilled"
    => CountIf(getGeometries.value, IsPresent) = QualifyingPrimitives(1)

\* C5: every Geometry of a successful load holds as many vertices as the
\* POSITION accessor counts and as many indices as the indices accessor
\* counts.
C5_CountsMatchAccessors ==
  pc = "fulfilled"
    => \A k \in 1..Len(getGeometries.value) :
         LET geometry == getGeometries.value[k] IN
         geometry.present
           => /\ geometry.vertices.length \div stride
                   = At(doc.accessors, geometry.primitive.POSITION).count
              /\ geometry.indices.length
                   = At(doc.accessors, geometry.primitive.indices).count

\* the indices the loader follows from a primitive, read off the document
AccessorRefs(primitive) ==
  {primitive.POSITION, primitive.TEXCOORD_0, primitive.NORMAL,
   primitive.indices}

TextureRefs(material) ==
  {material.baseColorTexture, material.metallicRoughnessTexture,
   material.normalTexture, material.emissiveTexture,
   material.occlusionTexture}

InRange(arr, i) == 0 <= i /\ i < Len(arr)

\* the primitive refers, directly or through what it refers to, to an
\* accessor, bufferView, material, texture or image that does not exist
HasDanglingReference(primitive) ==
  \/ \E a \in AccessorRefs(primitive) :
       \/ ~InRange(doc.accessors, a)
       \/ ~InRange(doc.bufferViews, doc.accessors[a + 1].bufferView)
  \/ ~InRange(doc.materials, primitive.material)
  \/ \E t \in TextureRefs(doc.materials[primitive.material + 1]) :
       \/ ~InRange(doc.textures, t)
       \/ ~InRange(doc.images, doc.textures[t + 1].source)

AllPrimitives ==
  UNION {{m.primitives[k] : k \in 1..Len(m.primitives)} :
           m \in {doc.meshes[j] : j \in 1..Len(doc.meshes)}}

\* primitives generateGeometries resolves: qualifying ones of a node's mesh
ResolvedPrimitives ==
  UNION {{m.primitives[k] : k \in 1..Len(m.primitives)} :
           m \in {At(doc.meshes, doc.nodes[n].mesh) :
                    n \in {j \in 1..Len(doc.nodes) :
                             Has(doc.meshes, doc.nodes[j].mesh)}}}
  \cap {q \in AllPrimitives : Qualifies(q)}

C7_NoPartialGeometries ==
  pc = "rejected"
    => (getGeometries.defined
          => \A k \in 1..Len(getGeometries.value) :
               ~getGeometries.value[k].present)

\* the node property is present in the document
Present(property) == property # Undef

\* C16: the model matrix of a Geometry is the node's matrix verbatim when
\* the node has one, whatever translation, rotation and scale it also has;
\* otherwise it is identity, then scale, then translate, then the rotation
\* of the quaternion, with exactly the properties the node has.
C16_ModelMatrix ==
  geometries.defined
    => \A k \in 1..Len(geometries.value) :
         LET node == doc.nodes[k]
             model == geometries.value[k].model
         IN geometries.value[k].present
              => /\ Present(node.matrix)
                      => model = <<Step("mat4.create", node.matrix)>>
                 /\ ~Present(node.matrix)
                      => model
                           = SelectSeq(
                               <<Step("mat4.identity", Undef),
                                 Step("mat4.scale", node.scale),
                                 Step("mat4.translate", node.translation),
                                 Step("mat4.mul(mat4.fromQuat)",
                                      node.rotation)>>,
                               LAMBDA s : s.fn = "mat4.identity"
                                            \/ Present(s.arg))

C16_Witness ==
  /\ pc = "fulfilled"
  /\ Len(doc.nodes) = 2
  /\ \A k \in 1..2 :
       /\ Present(doc.nodes[k].matrix)
       /\ Present(doc.nodes[k].scale)
       /\ Present(doc.nodes[k].rotation)
       /\ geometries.value[k].present
       /\ Len(geometries.value[k].model) = 1

\* every index of the document resolves, every node's mesh is absent or
\* exists, the version is 2.0 and every request is answered in full
ValidDocument ==
  /\ doc.asset.version = "2.0"
  /\ net.json = "ok"
  /\ \A i \in Buffers : net.bin[i] = "ok"
  /\ \A q \in AllPrimitives : ~HasDanglingReference(q)
  /\ \A n \in 1..Len(doc.nodes) :
       ~Present(doc.nodes[n].mesh) \/ Has(doc.meshes, doc.nodes[n].mesh)

\* C17: a valid document with nodes that have no mesh loads successfully;
\* those nodes contribute no Geometry and cause no error.
C17_MeshlessNodesSkipped ==
  (ValidDocument /\ \E n \in 1..Len(doc.nodes) : ~Present(doc.nodes[n].mesh))
    => /\ pc # "rejected"
       /\ geometries.defined
            => \A n \in 1..Len(doc.nodes) :
                 ~Present(doc.nodes[n].mesh) => ~geometries.value[n].present

\* number of components of an accessor type (glTF 2.0)
NumComponents(type) ==
  CASE type = "SCALAR" -> 1
    [] type = "VEC2" -> 2
    [] type = "VEC3" -> 3
    [] type = "VEC4" -> 4
    [] type = "MAT2" -> 4
    [] type = "MAT3" -> 9
    [] OTHER -> 16

\* byte width of one element of an accessor
ElementWidth(accessor) ==
  ComponentWidth(accessor.componentType) * NumComponents(accessor.type)

\* C18: every Geometry describes the packed layout position, texCoord,
\* normal: position.offset = 0, texCoord.offset = width(position),
\* normal.offset = width(position) + width(texCoord) and arrayStride = the
\* sum of the three widths, the width of an attribute being the byte width
\* of one element of its accessor.
C18_PackedLayout ==
  geometries.defined
    => \A k \in 1..Len(geometries.value) :
         LET geometry == geometries.value[k] IN
         geometry.present
           => LET p == ElementWidth(At(doc.accessors,
                                       geometry.primitive.POSITION))
                  t == ElementWidth(At(doc.accessors,
                                       geometry.primitive.TEXCOORD_0))
                  n == ElementWidth(At(doc.accessors,
                                       geometry.primitive.NORMAL))
              IN /\ geometry.position.offset = 0
                 /\ geometry.texCoord.offset = p
                 /\ geometry.normal.offset = p + t
                 /\ geometry.arrayStride = p + t + n

\* C19: the indices of a Geometry are the values the buffer stores for
\* the indices accessor in its declared component type (5121, 5123, 5125).
C19_IndicesMatchComponentType ==
  geometries.defined
    => \A k \in 1..Len(geometries.value) :
         geometries.value[k].present
           => geometries.value[k].indices.values = StoredIndices

\* C20: whatever the order in which the requests complete, slot i of the
\* join holds nothing or the bytes fetched for gltf.buffers[i], and after
\* the join stored buffer i is the bytes fetched for gltf.buffers[i].
C20_BufferSlots ==
  /\ \A i \in Buffers :
       values[i] # Hole
         => /\ values[i].uri = doc.buffers[i].uri
            /\ values[i].bytes = BinBytes(doc, i)
            /\ fetchState[i] = "resolved"
  /\ buffers.defined
       => /\ Len(buffers.value) = NumBuffers
          /\ \A i \in Buffers :
               /\ buffers.value[i].uri = doc.buffers[i].uri
               /\ buffers.value[i].bytes = BinBytes(doc, i)

C20_Witness ==
  /\ NumBuffers = 2
  /\ buffers.defined
  /\ buffers.value[2].uri = doc.buffers[2].uri
  /\ buffers.value[1].bytes # buffers.value[2].bytes

\* request i of the load has been issued and has not completed
Outstanding(i) == fetchState[i] \in {"fetch", "arrayBuffer"}

\* C21: generateGeometries never runs while a buffer request of the load is
\* outstanding: from its first step on, every declared buffer has been
\* fetched and is stored in this.buffers.
C21_GenerationAfterFetches ==
  (pc \in {"generateGeometries", "forEach"} \/ geometries.defined)
    => /\ \A i \in Buffers : ~Outstanding(i) /\ fetchState[i] = "resolved"
       /\ buffers.defined
       /\ Len(buffers.value) = Len(doc.buffers)
       /\ \A i \in Buffers : buffers.value[i] # Hole

C21_Witness ==
  /\ pc = "generateGeometries"
  /\ NumBuffers = 2
  /\ ~geometries.defined
  /\ \A i \in Buffers : fetchState[i] = "resolved"

\* C22 as stated: the size-mismatch error is never raised while another
\* buffer request of the same load is outstanding.
C22_Original ==
  error = "SizeMismatch" => \A i \in Buffers : ~Outstanding(i)

\* C22 amended: the length of a fetched buffer is verified when its own body
\* has arrived, whether or not other requests are outstanding: the
\* size-mismatch error is raised only for a buffer whose body has arrived
\* with the wrong length, never after the join, and a buffer is accepted only
\* with the declared length.
C22_SizeCheckedOnArrival ==
  /\ error = "SizeMismatch"
       => /\ \E i \in Buffers : Mismatched(i) /\ fetchState[i] = "rejected"
          /\ ~buffers.defined
  /\ \A i \in Buffers :
       fetchState[i] = "resolved"
         => values[i].byteLength = doc.buffers[i].byteLength

C22_Witness ==
  /\ error = "SizeMismatch"
  /\ \E i, j \in Buffers : Mismatched(i) /\ Outstanding(j)

\* float lane, counted from 0, of byte offset i * arrayStride + offset
Lane(geometry, i, offset) == (i * geometry.arrayStride + offset) \div 4

\* the components of element i of the accessor are values number
\* NumComponents * i onwards of the view on its buffer
StoredAsLaidOut(geometry, attribute, accessor, offset) ==
  \A i \in 0..(accessor.count - 1) :
    \A c \in 0..(NumComponents(accessor.type) - 1) :
      LET k == Lane(geometry, i, offset) + c IN
      /\ k < geometry.vertices.length
      /\ geometry.vertices.values[k + 1]
           = Element(attribute, NumComponents(accessor.type) * i + c)

\* C25: the interleave loop never writes outside vertices, and in every
\* emitted Geometry attribute a of vertex i is stored at byte offset
\* i * arrayStride + a.offset of vertices, for a = position, texCoord and
\* normal.
C25_InterleaveMatchesLayout ==
  /\ error # "RangeError"
  /\ geometries.defined
       => \A k \in 1..Len(geometries.value) :
            LET geometry == geometries.value[k] IN
            geometry.present
              => /\ StoredAsLaidOut(geometry, "position",
                      At(doc.accessors, geometry.primitive.POSITION),
                      geometry.position.offset)
                 /\ StoredAsLaidOut(geometry, "texCoord",
                      At(doc.accessors, geometry.primitive.TEXCOORD_0),
                      geometry.texCoord.offset)
                 /\ StoredAsLaidOut(geometry, "normal",
                      At(doc.accessors, geometry.primitive.NORMAL),
                      geometry.normal.offset)

(***************************************************************************)
(* HDRLoader (src/unnamed/part_001, lines 118-236).                        *)
(* Bytes are numbers 0..255.  A read past the end of a Uint8Array yields   *)
(* undefined, kept as Undef; a write past the end of a typed array is      *)
(* dropped; storing undefined in a Uint8Array stores 0.                    *)
(***************************************************************************)
MaxWidth == 2
MaxHeight == 2
\* how far past the end of the input the read position is followed
MaxOverrun == 2

\* ASCII texts, as the byte sequences they are in the file
LF == 10
Magic == <<35, 63, 82, 65, 68, 73, 65, 78, 67, 69>>       \* #?RADIANCE
FormatRGBE ==                                              \* 32-bit_rle_rgbe
  <<51, 50, 45, 98, 105, 116, 95, 114, 108, 101, 95, 114, 103, 98, 101>>
FormatXYZE ==                                              \* 32-bit_rle_xyze
  <<51, 50, 45, 98, 105, 116, 95, 114, 108, 101, 95, 120, 121, 122, 101>>
MinusY == <<45, 89, 32>>                                   \* "-Y "
PlusX == <<32, 43, 88, 32>>                                \* " +X "

IsDigit(b) == b \in 48..57

\* header.includes(pattern)
Includes(text, pattern) ==
  \E s \in 0..(Len(text) - Len(pattern)) :
    \A j \in 1..Len(pattern) : text[s + j] = pattern[j]

\* bytes[i] of a Uint8Array
ByteAt(bytes, i) == IF i < Len(bytes) THEN bytes[i + 1] ELSE Undef

\* part_001 162-169: number of bytes the header loop consumes
HeaderEnds(bytes, k) ==
  /\ bytes[k] = LF
  /\ Includes(SubSeq(bytes, 1, k), MinusY)
  /\ Includes(SubSeq(bytes, 1, k), PlusX)

HeaderLength(bytes) ==
  IF \E k \in 1..Len(bytes) : HeaderEnds(bytes, k)
  THEN CHOOSE k \in 1..Len(bytes) :
         /\ HeaderEnds(bytes, k)
         /\ \A j \in 1..(k - 1) : ~HeaderEnds(bytes, j)
  ELSE Len(bytes)

\* length of the longest run of digits of text that starts at position s
RECURSIVE DigitRun(_, _)
DigitRun(text, s) ==
  IF s <= Len(text) /\ IsDigit(text[s]) THEN 1 + DigitRun(text, s + 1) ELSE 0

HasAt(text, s, pattern) ==
  /\ s + Len(pattern) - 1 <= Len(text)
  /\ \A j \in 1..Len(pattern) : text[s + j - 1] = pattern[j]

\* /-Y (\d+) \+X (\d+)/ matches text at position s
ResolutionAt(text, s) ==
  /\ HasAt(text, s, MinusY)
  /\ DigitRun(text, s + 3) >= 1
  /\ HasAt(text, s + 3 + DigitRun(text, s + 3), PlusX)
  /\ DigitRun(text, s + 3 + DigitRun(text, s + 3) + 4) >= 1

\* parseInt of the digits text[s .. s + n - 1]
RECURSIVE ParseInt(_, _, _)
ParseInt(text, s, n) ==
  IF n = 0 THEN 0
  ELSE 10 * ParseInt(text, s, n - 1) + (text[s + n - 1] - 48)

\* part_001 178: header.match(...), the leftmost match
Resolution(text) ==
  IF \E s \in 1..Len(text) : ResolutionAt(text, s)
  THEN LET s == CHOOSE s \in 1..Len(text) :
                  /\ ResolutionAt(text, s)
                  /\ \A j \in 1..(s - 1) : ~ResolutionAt(text, j)
           n1 == DigitRun(text, s + 3)
           n2 == DigitRun(text, s + 3 + n1 + 4)
       IN [found |-> TRUE,
           height |-> ParseInt(text, s + 3, n1),
           width |-> ParseInt(text, s + 3 + n1 + 4, n2)]
  ELSE [found |-> FALSE, height |-> Undef, width |-> Undef]

\* part_001 171-184: the tests made on the header text once it is read
ParsedHeader(header) ==
  IF ~Includes(header, FormatRGBE) /\ ~Includes(header, FormatXYZE)
  THEN [error |-> "UnsupportedFormat", index |-> Len(header),
        width |-> Undef, height |-> Undef]
  ELSE IF ~Resolution(header).found
  THEN [error |-> "NoResolution", index |-> Len(header),
        width |-> Undef, height |-> Undef]
  ELSE [error |-> "", index |-> Len(header),
        width |-> Resolution(header).width,
        height |-> Resolution(header).height]

\* part_001 155-184: everything before the pixel data is allocated; the
\* header is the text the loop of lines 162-169 has collected
ParseHeader(bytes) ==
  CHOOSE parsed \in {ParsedHeader(header) :
                       header \in {SubSeq(bytes, 1, HeaderLength(bytes))}} :
    TRUE

\* a float32 value m * 2^(e - 128) / 255, in lowest terms of m
RECURSIVE Float(_, _)
Float(m, e) ==
  IF m = 0 THEN [m |-> 0, e |-> 0]
  ELSE IF m % 2 = 0 THEN Float(m \div 2, e + 1)
  ELSE [m |-> m, e |-> e]

\* the literal 1.0
One == Float(255, 128)

\* the allocation of the earlier version, three floats per pixel
DataLengthRGB(w, h) == w * h * 3

\* part_001 187: new Float32Array(width * height * 4), zero-filled
DataLength(w, h) == w * h * 4

NewFloat32Array(n) == [k \in 1..n |-> Float(0, 0)]

\* part_001 201: new Uint8Array(width * 4)
NewUint8Array(n) == [k \in 1..n |-> 0]

\* undefined stored in a Uint8Array becomes 0
ToUint8(b) == IF b = Undef THEN 0 ELSE b

(***************************************************************************)
(* The .hdr files explored: a header, then one RLE scanline per row.       *)
(***************************************************************************)
Pixel1 == <<255, 0, 0, 128>>
Pixel2 == <<1, 2, 0, 129>>
PixelOf(n) == IF n = 1 THEN Pixel1 ELSE Pixel2

RECURSIVE Digits(_)
Digits(n) ==
  IF n < 10 THEN <<48 + n>> ELSE Digits(n \div 10) \o <<48 + (n % 10)>>

ResolutionLine(w, h) ==
  MinusY \o Digits(h) \o PlusX \o Digits(w) \o <<LF>>

\* "noBlank" has no blank line before the resolution line; "magicOnly" and
\* "noTerminator" end inside the header, before any blank line
HeaderKinds ==
  {"rgbe", "xyze", "noFormat", "noResolution", "noBlank", "magicOnly",
   "noTerminator"}

HeaderBytes(kind, w, h) ==
  Magic \o <<LF>>
  \o (IF kind \in {"noFormat", "magicOnly"} THEN << >>
      ELSE (IF kind = "xyze" THEN FormatXYZE ELSE FormatRGBE) \o <<LF>>)
  \o (IF kind \in {"noBlank", "magicOnly", "noTerminator"} THEN << >>
      ELSE <<LF>>)
  \o (IF kind \in {"noResolution", "magicOnly", "noTerminator"} THEN << >>
      ELSE ResolutionLine(w, h))

\* the 4-byte descriptor of a scanline of w pixels
Descriptor(w) == <<2, 2, w \div 256, w % 256>>

\* the ways to cut a plane of n bytes into runs: sequences of lengths >= 1
RECURSIVE Compositions(_)
Compositions(n) ==
  IF n = 0 THEN {<< >>}
  ELSE UNION {{<<k>> \o c : c \in Compositions(n - k)} : k \in 1..n}

\* one run: a repeat run when asked for and the bytes allow it
EncodeRun(vals, asRepeat) ==
  IF asRepeat /\ \A j \in 1..Len(vals) : vals[j] = vals[1]
  THEN <<128 + Len(vals), vals[1]>>
  ELSE <<Len(vals)>> \o vals

\* run j covers runs[j] bytes and is a repeat run where asRepeat[j] allows
RECURSIVE EncodePlane(_, _, _)
EncodePlane(vals, runs, asRepeat) ==
  IF runs = << >> THEN << >>
  ELSE EncodeRun(SubSeq(vals, 1, runs[1]), asRepeat[1])
       \o EncodePlane(SubSeq(vals, runs[1] + 1, Len(vals)), Tail(runs),
                      Tail(asRepeat))

\* row r of the image: pixel x is pattern[(x + r) % w]
RowPixels(pattern, w, r) ==
  [col \in 1..w |-> PixelOf(pattern[((col - 1 + r) % w) + 1])]

PlaneOf(row, c) == [col \in 1..Len(row) |-> row[col][c]]

EncodeScanline(row, descriptor, runs, asRepeat) ==
  descriptor
  \o EncodePlane(PlaneOf(row, 1), runs, asRepeat)
  \o EncodePlane(PlaneOf(row, 2), runs, asRepeat)
  \o EncodePlane(PlaneOf(row, 3), runs, asRepeat)
  \o EncodePlane(PlaneOf(row, 4), runs, asRepeat)

DescriptorFor(kind, w) ==
  CASE kind = "badMagic" -> <<1, 2, w \div 256, w % 256>>
    [] kind = "badWidth" -> Descriptor(w + 1)
    [] OTHER -> Descriptor(w)

\* a scanline whose first plane is one run of Len(row) + 1 bytes
OverrunScanline(row, asRepeat) ==
  LET w == Len(row)
      all == <<w>>
  IN Descriptor(w)
     \o (IF asRepeat THEN <<128 + w + 1, row[1][1]>>
         ELSE <<w + 1>> \o PlaneOf(row, 1) \o <<row[1][1]>>)
     \o EncodePlane(PlaneOf(row, 2), all, <<asRepeat>>)
     \o EncodePlane(PlaneOf(row, 3), all, <<asRepeat>>)
     \o EncodePlane(PlaneOf(row, 4), all, <<asRepeat>>)

\* a scanline whose last plane is a literal run of no bytes
ZeroRunScanline(row, asRepeat) ==
  LET all == <<Len(row)>>
  IN Descriptor(Len(row))
     \o EncodePlane(PlaneOf(row, 1), all, <<asRepeat>>)
     \o EncodePlane(PlaneOf(row, 2), all, <<asRepeat>>)
     \o EncodePlane(PlaneOf(row, 3), all, <<asRepeat>>)
     \o <<0>>

RECURSIVE BodyBytes(_, _)
BodyBytes(f, r) ==
  IF r >= f.rows THEN << >>
  ELSE (IF r + 1 = f.badRow /\ f.body = "overrun"
        THEN OverrunScanline(RowPixels(f.pattern, f.width, r), f.asRepeat[1])
        ELSE IF r + 1 = f.badRow /\ f.body = "zeroRun"
        THEN ZeroRunScanline(RowPixels(f.pattern, f.width, r), f.asRepeat[1])
        ELSE EncodeScanline(RowPixels(f.pattern, f.width, r),
                            IF r + 1 = f.badRow
                            THEN DescriptorFor(f.body, f.width)
                            ELSE Descriptor(f.width),
                            f.runs, f.asRepeat))
       \o BodyBytes(f, r + 1)

FileBytes(f) ==
  LET all == HeaderBytes(f.header, f.width, f.height) \o BodyBytes(f, 0)
  IN SubSeq(all, 1, Len(all) - f.cut)

\* well-formed files of every size, pixel pattern and run structure
ValidFilesOfWidth(w) ==
  UNION {[header : {"rgbe"}, width : {w}, height : {h}, rows : {h},
          pattern : [1..w -> {1, 2}], runs : {runs},
          asRepeat : [1..Len(runs) -> BOOLEAN], body : {"valid"},
          badRow : {0}, cut : {0}] :
           h \in 1..MaxHeight, runs \in Compositions(w)}

ValidFiles == UNION {ValidFilesOfWidth(w) : w \in 1..MaxWidth}

\* files with one bad scanline descriptor or one overlong run, a missing
\* tail, a missing or an extra row, or a last plane that is an empty run
BrokenFiles ==
  UNION {[header : {"rgbe"}, width : {w}, height : {h}, rows : {h},
          pattern : {[col \in 1..w |-> 1]}, runs : {<<w>>},
          asRepeat : {<<TRUE>>, <<FALSE>>},
          body : {"badMagic", "badWidth", "overrun"},
          badRow : 1..h, cut : {0}] :
           w \in 1..MaxWidth, h \in 1..MaxHeight}
  \cup
  UNION {{f \in [header : {"rgbe"}, width : {w}, height : {h},
                 rows : {h - 1, h, h + 1},
                 pattern : {[col \in 1..w |-> 1]}, runs : {<<w>>},
                 asRepeat : {<<TRUE>>}, body : {"valid"}, badRow : {0},
                 cut : {0, 1, 2}] : f.rows >= 1 \/ f.cut = 0} :
           w \in 1..MaxWidth, h \in 1..MaxHeight}
  \cup
  UNION {[header : {"rgbe"}, width : {w}, height : {h}, rows : {h},
          pattern : {[col \in 1..w |-> 1]}, runs : {<<w>>},
          asRepeat : {<<TRUE>>, <<FALSE>>}, body : {"zeroRun"},
          badRow : {h}, cut : {0}] :
           w \in 1..MaxWidth, h \in 1..MaxHeight}

\* files that vary the header; one that ends inside its header has no body
HeaderFiles ==
  UNION {[header : {"magicOnly", "noTerminator"}, width : {w}, height : {1},
          rows : {0}, pattern : {[col \in 1..w |-> 2]}, runs : {<<w>>},
          asRepeat : {<<FALSE>>}, body : {"valid"}, badRow : {0},
          cut : {0}] :
           w \in 1..MaxWidth}
  \cup
  UNION {[header : HeaderKinds \ {"magicOnly", "noTerminator"}, width : {w},
          height : {1}, rows : {1},
          pattern : {[col \in 1..w |-> 2]}, runs : {<<w>>},
          asRepeat : {<<FALSE>>}, body : {"valid"}, badRow : {0},
          cut : {0}] :
           w \in 1..MaxWidth}

HdrInputs ==
  [file : ValidFiles \cup BrokenFiles \cup HeaderFiles, net : {"ok"}]
  \cup [file : HeaderFiles, net : {"notOk", "reject"}]

(***************************************************************************)
(* HDRLoader.load as a process; parseHDR is followed scanline by scanline  *)
(* and run by run.                                                         *)
(***************************************************************************)
HdrIdle ==
  /\ hdrPc = "idle"
  /\ hdrError = ""
  /\ buffer = Unassigned
  /\ width = Undef
  /\ height = Undef
  /\ data = Unassigned
  /\ hdrIndex = 0
  /\ currentPixel = 0
  /\ scanline = << >>
  /\ plane = 0
  /\ position = 0

HdrInit ==
  /\ \E in \in HdrInputs :
       hdrInput = [file |-> in.file, net |-> in.net,
                   bytes |-> FileBytes(in.file)]
  /\ HdrIdle

\* part_001 140-141 and 146: load() runs up to the fetch of the file
HdrLoad ==
  /\ hdrPc = "idle"
  /\ hdrPc' = "loadBuffer"
  /\ UNCHANGED <<hdrInput, hdrError, buffer, width, height, data, hdrIndex,
                 currentPixel, scanline, plane, position>>
  /\ UNCHANGED besidesHdr

\* part_001 146-152: the file arrives (or its fetch fails)
LoadBuffer ==
  /\ hdrPc = "loadBuffer"
  /\ IF hdrInput.net = "ok"
     THEN /\ buffer' = Assigned(hdrInput.bytes)
          /\ hdrPc' = "parseHDR"
          /\ UNCHANGED hdrError
     ELSE /\ hdrPc' = "rejected"
          /\ hdrError' = IF hdrInput.net = "reject" THEN "NetworkError"
                         ELSE "FetchFailed"
          /\ UNCHANGED buffer
  /\ UNCHANGED <<hdrInput, width, height, data, hdrIndex, currentPixel,
                 scanline, plane, position>>
  /\ UNCHANGED besidesHdr

\* part_001 155-188: header scan, format and resolution, allocation
ParseHDRBegin ==
  /\ hdrPc = "parseHDR"
  /\ LET h == ParseHeader(buffer.value) IN
     IF h.error # ""
     THEN /\ hdrPc' = "rejected"
          /\ hdrError' = h.error
          /\ UNCHANGED <<width, height, data, hdrIndex, currentPixel>>
     ELSE /\ width' = h.width
          /\ height' = h.height
          /\ data' = Assigned(NewFloat32Array(DataLength(h.width, h.height)))
          /\ hdrIndex' = h.index
          /\ currentPixel' = 0
          /\ hdrPc' = "scanlines"
          /\ UNCHANGED hdrError
  /\ UNCHANGED <<hdrInput, buffer, scanline, plane, position>>
  /\ UNCHANGED besidesHdr

\* a descriptor test that does not compare the width
DescriptorRejectedIgnoringWidth(bytes, i, w) ==
  \/ ByteAt(bytes, i) # 2
  \/ ByteAt(bytes, i + 1) # 2

\* part_001 193-197: the descriptor test.  A missing byte is undefined:
\* undefined !== 2, and a sum with undefined is NaN, which !== width.
DescriptorRejected(bytes, i, w) ==
  \/ ByteAt(bytes, i) # 2
  \/ ByteAt(bytes, i + 1) # 2
  \/ ByteAt(bytes, i + 3) = Undef
  \/ ByteAt(bytes, i + 2) * 256 + ByteAt(bytes, i + 3) # w

\* part_001 189-201: the next scanline starts
ScanlineHeader ==
  /\ hdrPc = "scanlines"
  /\ hdrIndex < Len(buffer.value)
  /\ hdrIndex' = hdrIndex + 4
  /\ IF DescriptorRejected(buffer.value, hdrIndex, width)
     THEN /\ hdrPc' = "rejected"
          /\ hdrError' = "UnsupportedEncoding"
          /\ UNCHANGED <<scanline, plane, position>>
     ELSE /\ hdrPc' = "plane"
          /\ scanline' = NewUint8Array(width * 4)
          /\ plane' = 0
          /\ position' = 0
          /\ UNCHANGED hdrError
  /\ UNCHANGED <<hdrInput, buffer, width, height, data, currentPixel>>
  /\ UNCHANGED besidesHdr

\* a repeat run that is one copy too long
RunLengthOffByOne(count) == count - 127

\* part_001 207
RunLength(count) == count - 128

\* part_001 208-212: runLength copies of value from pixel `position` on
RepeatRun(sl, i, pos, runLength, value) ==
  [k \in 1..Len(sl) |->
     IF \E j \in 0..(runLength - 1) : k - 1 = i + (pos + j) * 4
     THEN ToUint8(value)
     ELSE sl[k]]

\* part_001 214-217: count bytes copied from bytes[first ..]
LiteralRun(sl, i, pos, count, bytes, first) ==
  [k \in 1..Len(sl) |->
     IF \E j \in 0..(count - 1) : k - 1 = i + (pos + j) * 4
     THEN ToUint8(ByteAt(bytes, first + ((k - 1 - i) \div 4 - pos)))
     ELSE sl[k]]

\* every read at or past the end of the input yields undefined, so the read
\* position is followed MaxOverrun bytes past the end and no further
PastEnd(bytes, i) ==
  IF i > Len(bytes) + MaxOverrun THEN Len(bytes) + MaxOverrun ELSE i

\* part_001 204-219: one iteration of while (position < this.width).
\* An undefined count is neither > 128 nor a bound any j is below.
Run ==
  /\ hdrPc = "plane"
  /\ plane < 4
  /\ position < width
  /\ LET bytes == buffer.value
         count == ByteAt(bytes, hdrIndex)
     IN IF count > 128
        THEN /\ scanline' = RepeatRun(scanline, plane, position,
                                      RunLength(count),
                                      ByteAt(bytes, hdrIndex + 1))
             /\ position' = position + RunLength(count)
             /\ hdrIndex' = PastEnd(bytes, hdrIndex + 2)
        ELSE LET n == IF count = Undef THEN 0 ELSE count IN
             /\ scanline' = LiteralRun(scanline, plane, position, n, bytes,
                                       hdrIndex + 1)
             /\ position' = position + n
             /\ hdrIndex' = PastEnd(bytes, hdrIndex + 1 + n)
  /\ UNCHANGED <<hdrInput, hdrPc, hdrError, buffer, width, height, data,
                 currentPixel, plane>>
  /\ UNCHANGED besidesHdr

\* part_001 202-204: the plane is full; the for loop moves to the next one
NextPlane ==
  /\ hdrPc = "plane"
  /\ plane < 4
  /\ position >= width
  /\ plane' = plane + 1
  /\ position' = 0
  /\ UNCHANGED <<hdrInput, hdrPc, hdrError, buffer, width, height, data,
                 hdrIndex, currentPixel, scanline>>
  /\ UNCHANGED besidesHdr

\* a reconstruction that leaves the fourth component of each pixel unset
ReconstructedWithoutAlpha(d, from, sl, w) ==
  [k \in 1..Len(d) |->
     LET o == k - 1 - from IN
     IF o \in 0..(4 * w - 1) /\ o % 4 # 3
     THEN Float(sl[4 * (o \div 4) + (o % 4) + 1], sl[4 * (o \div 4) + 4])
     ELSE d[k]]

\* part_001 222-233: the scanline's pixels appended to data from
\* currentPixel on: r * scale, g * scale, b * scale, 1.0
Reconstructed(d, from, sl, w) ==
  [k \in 1..Len(d) |->
     LET o == k - 1 - from IN
     IF o \in 0..(4 * w - 1)
     THEN IF o % 4 = 3 THEN One
          ELSE Float(sl[4 * (o \div 4) + (o % 4) + 1], sl[4 * (o \div 4) + 4])
     ELSE d[k]]

Reconstruct ==
  /\ hdrPc = "plane"
  /\ plane = 4
  /\ data' = Assigned(Reconstructed(data.value, currentPixel, scanline, width))
  /\ currentPixel' = currentPixel + 4 * width
  /\ hdrPc' = "scanlines"
  /\ UNCHANGED <<hdrInput, hdrError, buffer, width, height, hdrIndex,
                 scanline, plane, position>>
  /\ UNCHANGED besidesHdr

\* part_001 189 and 235: no byte is left; parseHDR returns, load() fulfils
ParseHDRDone ==
  /\ hdrPc = "scanlines"
  /\ hdrIndex >= Len(buffer.value)
  /\ hdrPc' = "fulfilled"
  /\ UNCHANGED <<hdrInput, hdrError, buffer, width, height, data, hdrIndex,
                 currentPixel, scanline, plane, position>>
  /\ UNCHANGED besidesHdr

HdrNext ==
  \/ HdrLoad
  \/ LoadBuffer
  \/ ParseHDRBegin
  \/ ScanlineHeader
  \/ Run
  \/ NextPlane
  \/ Reconstruct
  \/ ParseHDRDone

(***************************************************************************)
(* Camera (src/src/camera.ts, lines 173-351, the class the renderer uses). *)
(* Lengths and angles are kept in hundredths.  A vector or quaternion is   *)
(* the expression that computed it: a call of a wgpu-matrix function is    *)
(* the function's name with its arguments, so two values are equal when    *)
(* they were computed the same way from the same inputs.                   *)
(***************************************************************************)
MaxMoves == 1

\* where the mouse can be
Positions == {<<0, 0>>, <<1, 2>>}
Buttons == 0..3
Keys == {"Alt", "Shift"}

rotateAmplitude == 5
panAmplitude == 1
scrollAmplitude == 1

Number(n) == [fn |-> "number", n |-> n, of |-> << >>]
Call(fn, args) == [fn |-> fn, n |-> 0, of |-> args]
Vec3Create(a, b, c) == Call("vec3.create", <<Number(a), Number(b), Number(c)>>)
QuatCreate == Call("quat.create", << >>)

\* camera.ts 198-231: the constructor
CameraInit ==
  /\ controlled = FALSE
  /\ moveMode = "None"
  /\ x = 0
  /\ y = 0
  /\ pitch = 0
  /\ yaw = 0
  /\ distance = 1000
  /\ target = Vec3Create(0, 0, 0)
  /\ eye = Vec3Create(0, 0, 1000)
  /\ up = Vec3Create(0, 100, 0)
  /\ rotation = QuatCreate

\* camera.ts 241-249
onKeyDown(key) ==
  /\ controlled' = IF key = "Alt" THEN TRUE ELSE controlled
  /\ UNCHANGED <<moveMode, x, y, yaw, pitch, distance, target, eye, up,
                 rotation>>
  /\ UNCHANGED besidesCamera

\* camera.ts 251-259
onKeyUp(key) ==
  /\ controlled' = IF key = "Alt" THEN FALSE ELSE controlled
  /\ UNCHANGED <<moveMode, x, y, yaw, pitch, distance, target, eye, up,
                 rotation>>
  /\ UNCHANGED besidesCamera

\* a button switch whose cases for the middle and right button are swapped
MoveModeOfSwapped(button) ==
  CASE button = 0 -> "Tumble"
    [] button = 1 -> "Dolly"
    [] button = 2 -> "Track"
    [] OTHER -> "None"

\* camera.ts 269-282: switch (event.button)
MoveModeOf(button) ==
  CASE button = 0 -> "Tumble"
    [] button = 1 -> "Track"
    [] button = 2 -> "Dolly"
    [] OTHER -> "None"

\* camera.ts 261-283
onMouseDown(button, clientX, clientY) ==
  /\ IF ~controlled
     THEN UNCHANGED <<x, y, moveMode>>
     ELSE /\ x' = clientX
          /\ y' = clientY
          /\ moveMode' = MoveModeOf(button)
  /\ UNCHANGED <<controlled, yaw, pitch, distance, target, eye, up, rotation>>
  /\ UNCHANGED besidesCamera

\* camera.ts 285-291
onMouseUp ==
  /\ moveMode' = IF ~controlled THEN moveMode ELSE "None"
  /\ UNCHANGED <<controlled, x, y, yaw, pitch, distance, target, eye, up,
                 rotation>>
  /\ UNCHANGED besidesCamera

\* camera.ts 319-337: the fields updateCameraRotation assigns
updateCameraRotation(deltaX, deltaY) ==
  LET newYaw == (0 - deltaX) * rotateAmplitude
      newPitch == (0 - deltaY) * rotateAmplitude
      quatYaw == Call("quat.fromAxisAngle",
                      <<up, Call("utils.degToRad", <<Number(newYaw)>>)>>)
      back == Call("vec3.normalize", <<Call("vec3.sub", <<eye, target>>)>>)
      cameraRight == Call("vec3.transformQuat",
                          <<Call("vec3.cross", <<up, back>>), quatYaw>>)
      quatPitch == Call("quat.fromAxisAngle",
                        <<cameraRight,
                          Call("utils.degToRad", <<Number(newPitch)>>)>>)
      newRotation == Call("quat.mul", <<quatYaw, quatPitch>>)
      newBack == Call("vec3.transformQuat", <<back, newRotation>>)
  IN [yaw |-> newYaw,
      pitch |-> newPitch,
      rotation |-> newRotation,
      up |-> Call("vec3.normalize",
                  <<Call("vec3.cross", <<newBack, cameraRight>>)>>),
      eye |-> Call("vec3.add",
                   <<target,
                     Call("vec3.mulScalar", <<newBack, Number(distance)>>)>>)]

\* camera.ts 339-341
updateCameraDistance(deltaX, deltaY) ==
  distance - (deltaX + deltaY) * scrollAmplitude

\* camera.ts 343-350
updateCameraTarget(deltaX, deltaY) ==
  LET panOffset ==
        Call("vec3.transformQuat",
             <<Vec3Create((0 - deltaX) * panAmplitude, deltaY * panAmplitude,
                          0),
               rotation>>)
  IN Call("vec3.add", <<target, panOffset>>)

\* the eye the last updateCameraRotation started from
PreviousEye(e) == e.of[2].of[1].of[1].of[1].of[1]

\* how many times updateCameraRotation has run on the way to eye e
RECURSIVE Tumbles(_)
Tumbles(e) == IF e.fn = "vec3.create" THEN 0 ELSE 1 + Tumbles(PreviousEye(e))

\* how many times updateCameraTarget has run on the way to target t
RECURSIVE Tracks(_)
Tracks(t) == IF t.fn = "vec3.create" THEN 0 ELSE 1 + Tracks(t.of[1])

\* the moves followed: MaxMoves orbits and pans in all, and a distance
\* within 3 * MaxMoves hundredths of the constructor's
WithinBounds(mode, deltaX, deltaY) ==
  CASE mode = "Tumble" -> Tumbles(eye) + Tracks(target) < MaxMoves
    [] mode = "Track" -> Tumbles(eye) + Tracks(target) < MaxMoves
    [] mode = "Dolly" ->
         updateCameraDistance(deltaX, deltaY)
           \in (1000 - 3 * MaxMoves)..(1000 + 3 * MaxMoves)
    [] OTHER -> TRUE

\* camera.ts 293-317
onMouseMove(clientX, clientY) ==
  /\ IF ~controlled \/ moveMode = "None"
     THEN UNCHANGED <<x, y, yaw, pitch, distance, target, eye, up, rotation>>
     ELSE LET deltaX == clientX - x
              deltaY == clientY - y
          IN /\ WithinBounds(moveMode, deltaX, deltaY)
             /\ x' = clientX
             /\ y' = clientY
             /\ CASE moveMode = "Tumble" ->
                       LET r == updateCameraRotation(deltaX, deltaY) IN
                       /\ yaw' = r.yaw
                       /\ pitch' = r.pitch
                       /\ rotation' = r.rotation
                       /\ up' = r.up
                       /\ eye' = r.eye
                       /\ UNCHANGED <<distance, target>>
                  [] moveMode = "Dolly" ->
                       /\ distance' = updateCameraDistance(deltaX, deltaY)
                       /\ UNCHANGED <<yaw, pitch, target, eye, up, rotation>>
                  [] moveMode = "Track" ->
                       /\ target' = updateCameraTarget(deltaX, deltaY)
                       /\ UNCHANGED <<yaw, pitch, distance, eye, up, rotation>>
  /\ UNCHANGED <<controlled, moveMode>>
  /\ UNCHANGED besidesCamera

\* the events the document delivers (camera.ts 226-230), in any order
NoButtonDown == pressed = "none"

KeyDown == (\E key \in Keys : onKeyDown(key)) /\ UNCHANGED pressed
KeyUp == (\E key \in Keys : onKeyUp(key)) /\ UNCHANGED pressed
MouseDown ==
  /\ \E button \in Buttons, p \in Positions : onMouseDown(button, p[1], p[2])
  /\ UNCHANGED pressed
MouseUp == onMouseUp /\ UNCHANGED pressed
MouseMove ==
  (\E p \in Positions : onMouseMove(p[1], p[2])) /\ UNCHANGED pressed

\* the same events from a mouse that stays over the page.  One button is
\* down at a time: it goes down with or without Alt held, and only a button
\* that is down comes up.
ButtonDown ==
  /\ NoButtonDown
  /\ \E button \in Buttons, p \in Positions : onMouseDown(button, p[1], p[2])
  /\ pressed' = IF controlled THEN "withAlt" ELSE "plain"
ButtonUp ==
  /\ ~NoButtonDown
  /\ onMouseUp
  /\ pressed' = "none"

CameraNext ==
  \/ KeyDown
  \/ KeyUp
  \/ MouseDown
  \/ MouseUp
  \/ MouseMove

PointerNext ==
  \/ KeyDown
  \/ KeyUp
  \/ ButtonDown
  \/ ButtonUp
  \/ MouseMove

\* a freshly constructed Camera on a page whose mouse is at rest
CameraIdle == CameraInit /\ NoButtonDown

\* camera.ts 233-235 and 237-239
view == Call("mat4.lookAt", <<eye, target, up>>)
cameraPosition == eye

(***************************************************************************)
(* RollingAverage (utils.ts 41-63).  A number is finite (an integer here),  *)
(* an infinity or NaN, with the arithmetic of IEEE 754: an infinity minus  *)
(* itself is NaN and NaN is absorbing.                                     *)
(***************************************************************************)
MaxSampleCount == 2
MaxAssignments == 4

Finite(n) == [kind |-> "finite", n |-> n]
Infinity == [kind |-> "Infinity", n |-> 1]
MinusInfinity == [kind |-> "Infinity", n |-> -1]
NaN == [kind |-> "NaN", n |-> 0]
Undefined == [kind |-> "undefined", n |-> 0]

Negate(a) == IF a.kind = "NaN" THEN NaN ELSE [a EXCEPT !.n = 0 - a.n]

Plus(a, b) ==
  IF a.kind = "NaN" \/ b.kind = "NaN" THEN NaN
  ELSE IF a.kind = "finite" /\ b.kind = "finite" THEN Finite(a.n + b.n)
  ELSE IF a.kind = "finite" THEN b
  ELSE IF b.kind = "finite" \/ a = b THEN a
  ELSE NaN

Minus(a, b) == Plus(a, Negate(b))

\* v || 0: undefined, 0 and NaN are falsy
OrZero(v) == IF v \in {Undefined, Finite(0), NaN} THEN Finite(0) ELSE v

\* the values assigned: frame rates and times, and the 1000 / 0 that
\* renderer.ts 1821 computes for two frames with the same timestamp
Values == {Finite(-1), Finite(0), Finite(2), Infinity}

\* this.samples[i]
SampleAt(i) == IF i < Len(samples) THEN samples[i + 1] ELSE Undefined

\* utils.ts 47-52: the constructor
RollInit ==
  /\ sampleCount \in 1..MaxSampleCount
  /\ total = Finite(0)
  /\ samples = << >>
  /\ cursor = 0
  /\ assigned = << >>

\* a RollingAverage nothing has been assigned to
RollIdle ==
  /\ sampleCount = 1
  /\ total = Finite(0)
  /\ samples = << >>
  /\ cursor = 0
  /\ assigned = << >>

\* utils.ts 54-58: set value(value)
SetValue(v) ==
  /\ Len(assigned) < MaxAssignments
  /\ total' = Plus(total, Minus(v, OrZero(SampleAt(cursor))))
  /\ samples' = IF cursor < Len(samples)
                THEN [samples EXCEPT ![cursor + 1] = v]
                ELSE Append(samples, v)
  /\ cursor' = (cursor + 1) % sampleCount
  /\ assigned' = Append(assigned, v)
  /\ UNCHANGED sampleCount
  /\ UNCHANGED besidesRoll

\* utils.ts 60-62: get value(), the quotient kept as its two operands
value == [total |-> total, length |-> Len(samples)]

RollNext == \E v \in Values : SetValue(v)

(***************************************************************************)
(* Mipmap generation (utils.ts 20-24, renderer.ts 1074-1317).              *)
(***************************************************************************)
MaxSize == 8

\* Math.log2(n) truncated: the k with 2^k <= n < 2^(k + 1)
Log2(n) == CHOOSE k \in 0..n : 2 ^ k <= n /\ n < 2 ^ (k + 1)

Maximum(a, b) == IF a > b THEN a ELSE b
Minimum(a, b) == IF a < b THEN a ELSE b

\* a level count taken from the smaller side
calculateMipLevelCountOfMin(w, h) == 1 + Log2(Minimum(w, h))

\* utils.ts 20-24: (1 + Math.log2(Math.max(...sizes))) | 0
calculateMipLevelCount(w, h) == 1 + Log2(Maximum(w, h))

\* renderer.ts 1057-1067 and 1511-1520: a 2d texture, or one of 6 layers,
\* created with the level count computed from its size
Textures ==
  {[width |-> w, height |-> h, depthOrArrayLayers |-> layers,
    mipLevelCount |-> calculateMipLevelCount(w, h)] :
     w \in 1..MaxSize, h \in 1..MaxSize, layers \in {1, 6}}

MipInit ==
  /\ texture \in Textures
  /\ mipPc = "copySourceToTexture"
  /\ mipWidth = 0
  /\ mipHeight = 0
  /\ baseMipLevel = 0
  /\ passes = << >>

\* no texture being filled
MipIdle ==
  /\ texture = [width |-> 1, height |-> 1, depthOrArrayLayers |-> 1,
                mipLevelCount |-> 1]
  /\ mipPc = "done"
  /\ mipWidth = 0
  /\ mipHeight = 0
  /\ baseMipLevel = 0
  /\ passes = << >>

\* renderer.ts 1092-1100: the copy, then mipmaps if the texture has levels
CopySourceToTexture ==
  /\ mipPc = "copySourceToTexture"
  /\ mipPc' = IF texture.mipLevelCount > 1 THEN "generateMipmaps" ELSE "done"
  /\ UNCHANGED <<texture, mipWidth, mipHeight, baseMipLevel, passes>>
  /\ UNCHANGED besidesMip

\* renderer.ts 1205-1212: the encoder and the loop variables
GenerateMipmaps ==
  /\ mipPc = "generateMipmaps"
  /\ mipWidth' = texture.width
  /\ mipHeight' = texture.height
  /\ baseMipLevel' = 0
  /\ mipPc' = "while"
  /\ UNCHANGED <<texture, passes>>
  /\ UNCHANGED besidesMip

\* a render pass that samples level `from` of a layer into level `to`
Pass(layer, from, to) == [layer |-> layer, source |-> from, target |-> to]

\* renderer.ts 1213-1313: one iteration of while (width > 1 || height > 1)
MipLevel ==
  /\ mipPc = "while"
  /\ mipWidth > 1 \/ mipHeight > 1
  /\ mipWidth' = Maximum(1, mipWidth \div 2)
  /\ mipHeight' = Maximum(1, mipHeight \div 2)
  /\ IF texture.depthOrArrayLayers = 1
     THEN /\ passes' = Append(passes, Pass(0, baseMipLevel, baseMipLevel + 1))
          /\ baseMipLevel' = baseMipLevel + 1
     ELSE IF texture.depthOrArrayLayers = 6
     THEN /\ passes' = passes \o [layer \in 1..6 |->
                                    Pass(layer - 1, baseMipLevel,
                                         baseMipLevel + 1)]
          /\ baseMipLevel' = baseMipLevel + 1
     ELSE UNCHANGED <<passes, baseMipLevel>>
  /\ UNCHANGED <<texture, mipPc>>
  /\ UNCHANGED besidesMip

\* renderer.ts 1213 and 1316: the loop ends and the encoder is submitted
MipSubmit ==
  /\ mipPc = "while"
  /\ ~(mipWidth > 1 \/ mipHeight > 1)
  /\ mipPc' = "done"
  /\ UNCHANGED <<texture, mipWidth, mipHeight, baseMipLevel, passes>>
  /\ UNCHANGED besidesMip

MipNext ==
  \/ CopySourceToTexture
  \/ GenerateMipmaps
  \/ MipLevel
  \/ MipSubmit

(***************************************************************************)
(* GPU timestamps (renderer.ts 173-191 and 2015-2048).  The result buffer  *)
(* is a GPUBuffer: mapAsync takes it from unmapped to pending and later to *)
(* mapped, or back to unmapped if the map fails; a mapAsync on a buffer    *)
(* that is not unmapped is rejected and leaves it as it is.                *)
(***************************************************************************)
MaxFrames == 5

TimeInit ==
  /\ hasTimestamp \in BOOLEAN
  /\ mapState = "unmapped"
  /\ frame = 0
  /\ copies = << >>
  /\ mapRequests = << >>
  /\ maps = 0
  /\ unmaps = 0

\* no frame drawn, on an adapter without timestamp queries
TimeIdle ==
  /\ hasTimestamp = FALSE
  /\ mapState = "unmapped"
  /\ frame = 0
  /\ copies = << >>
  /\ mapRequests = << >>
  /\ maps = 0
  /\ unmaps = 0

\* what a frame did with the result buffer, and in which state it was
Use(f, state) == [frame |-> f, state |-> state]

\* renderer.ts 2024: the copy is encoded
CopyEncoded(timestamps, state) == timestamps /\ state = "unmapped"

\* a frame that asks for a map whatever the state of the buffer
MapRequestedUnguarded(timestamps, state) == timestamps

\* renderer.ts 2040: mapAsync is called
MapRequested(timestamps, state) == timestamps /\ state = "unmapped"

\* renderer.ts 1820-2051: one frame, as far as the result buffer goes
DrawFrame ==
  /\ frame < MaxFrames
  /\ frame' = frame + 1
  /\ copies' = IF CopyEncoded(hasTimestamp, mapState)
               THEN Append(copies, Use(frame + 1, mapState))
               ELSE copies
  /\ IF MapRequested(hasTimestamp, mapState)
     THEN /\ mapRequests' = Append(mapRequests, Use(frame + 1, mapState))
          /\ mapState' = IF mapState = "unmapped" THEN "pending"
                         ELSE mapState
     ELSE UNCHANGED <<mapRequests, mapState>>
  /\ UNCHANGED <<hasTimestamp, maps, unmaps>>
  /\ UNCHANGED besidesTime

\* the GPU has finished the work submitted: the buffer is mapped
MapResolved ==
  /\ mapState = "pending"
  /\ mapState' = "mapped"
  /\ maps' = maps + 1
  /\ UNCHANGED <<hasTimestamp, frame, copies, mapRequests, unmaps>>
  /\ UNCHANGED besidesTime

\* the map fails (the device is lost): the buffer is unmapped again and
\* the promise rejects, which nothing handles
MapRejected ==
  /\ mapState = "pending"
  /\ mapState' = "unmapped"
  /\ UNCHANGED <<hasTimestamp, frame, copies, mapRequests, maps, unmaps>>
  /\ UNCHANGED besidesTime

\* renderer.ts 2041-2047: the then callback reads the times and unmaps
OnMapped ==
  /\ mapState = "mapped"
  /\ mapState' = "unmapped"
  /\ unmaps' = unmaps + 1
  /\ UNCHANGED <<hasTimestamp, frame, copies, mapRequests, maps>>
  /\ UNCHANGED besidesTime

TimeNext ==
  \/ DrawFrame
  \/ MapResolved
  \/ MapRejected
  \/ OnMapped

(***************************************************************************)
(* Start-up (index.ts 1-10, renderer.ts 102-136).  render() and init() are *)
(* async functions: whatever is thrown inside them, before or after the    *)
(* first await, rejects the promise they return and is not thrown to the   *)
(* caller.                                                                 *)
(***************************************************************************)
\* renderer.ts 107-136: the calls of init(), and whether each is awaited
Steps ==
  << [name |-> "checkWebGPUSupport", awaited |-> FALSE],
     [name |-> "requestAdapter", awaited |-> TRUE],
     [name |-> "requestDevice", awaited |-> TRUE],
     [name |-> "getCanvas", awaited |-> FALSE],
     [name |-> "configContext", awaited |-> FALSE],
     [name |-> "createMultisamplingTexture", awaited |-> FALSE],
     [name |-> "createDepthTextures", awaited |-> FALSE],
     [name |-> "loadModel", awaited |-> TRUE],
     [name |-> "loadHDR", awaited |-> TRUE],
     [name |-> "createRenderPipeline", awaited |-> FALSE],
     [name |-> "createVertexBuffer", awaited |-> FALSE],
     [name |-> "createIndexBuffer", awaited |-> FALSE],
     [name |-> "createUniformBuffer", awaited |-> FALSE],
     [name |-> "createTexture", awaited |-> TRUE],
     [name |-> "createSkyboxRenderPipeline", awaited |-> FALSE],
     [name |-> "createSkyboxUniformBuffer", awaited |-> TRUE],
     [name |-> "initGUI", awaited |-> FALSE] >>

InitInit ==
  /\ fault \in 0..Len(Steps)
  /\ entryPc = "try"
  /\ initPc = 1
  /\ renderPromise = "none"
  /\ caught = FALSE
  /\ logged = FALSE
  /\ running = FALSE
  /\ unhandled = FALSE

\* a page whose entry point has not run
InitIdle ==
  /\ fault = 0
  /\ entryPc = "try"
  /\ initPc = 1
  /\ renderPromise = "none"
  /\ caught = FALSE
  /\ logged = FALSE
  /\ running = FALSE
  /\ unhandled = FALSE

\* a call of an async function completes normally and returns a promise
ThrowsToCaller(asyncFunction) == ~asyncFunction

\* the steps of init() run in one go from step k: up to and including the
\* first that raises or is awaited
RECURSIVE RunFrom(_)
RunFrom(k) ==
  IF k > Len(Steps) THEN [next |-> k, raised |-> FALSE]
  ELSE IF fault = k THEN [next |-> 0, raised |-> TRUE]
  ELSE IF Steps[k].awaited THEN [next |-> k + 1, raised |-> FALSE]
  ELSE RunFrom(k + 1)

\* index.ts 4-10: try { renderer.render() } catch (err) { ... }.  The call
\* runs render() and init() up to their first await.
EntryPoint ==
  /\ entryPc = "try"
  /\ entryPc' = "done"
  /\ LET r == RunFrom(1) IN
     /\ initPc' = r.next
     /\ renderPromise' = IF r.raised THEN "rejected" ELSE "pending"
     /\ caught' = (r.raised /\ ThrowsToCaller(TRUE))
     /\ logged' = (r.raised /\ ThrowsToCaller(TRUE))
  /\ UNCHANGED <<fault, running, unhandled>>
  /\ UNCHANGED besidesInit

\* renderer.ts 107-136: an awaited step settles and init() goes on to the
\* next await or to its end
InitResume ==
  /\ renderPromise = "pending"
  /\ initPc \in 1..Len(Steps)
  /\ LET r == RunFrom(initPc) IN
     /\ initPc' = r.next
     /\ renderPromise' = IF r.raised THEN "rejected" ELSE "pending"
  /\ UNCHANGED <<fault, entryPc, caught, logged, running, unhandled>>
  /\ UNCHANGED besidesInit

\* renderer.ts 102-105 and 1816-1818: init() is over; run() starts the loop
RunLoop ==
  /\ renderPromise = "pending"
  /\ initPc = Len(Steps) + 1
  /\ running' = TRUE
  /\ renderPromise' = "fulfilled"
  /\ initPc' = 0
  /\ UNCHANGED <<fault, entryPc, caught, logged, unhandled>>
  /\ UNCHANGED besidesInit

\* nothing handles the rejection of the promise render() returned
UnhandledRejection ==
  /\ renderPromise = "rejected"
  /\ ~caught
  /\ ~unhandled
  /\ unhandled' = TRUE
  /\ UNCHANGED <<fault, entryPc, initPc, renderPromise, caught, logged,
                 running>>
  /\ UNCHANGED besidesInit

InitNext ==
  \/ EntryPoint
  \/ InitResume
  \/ RunLoop
  \/ UnhandledRejection

RendererIdle == RollIdle /\ MipIdle /\ TimeIdle /\ InitIdle

\* the glTF loader, with the HDR loader left alone
GltfIdle ==
  /\ doc = [buffers |-> << >>]
  /\ net = [json |-> "ok", bin |-> << >>]
  /\ pc = "idle"
  /\ error = ""
  /\ gltf = Unassigned
  /\ fetchState = << >>
  /\ fetchCount = << >>
  /\ values = << >>
  /\ buffers = Unassigned
  /\ geometries = Unassigned
  /\ index = 0

\* a freshly constructed glTFLoader, the HDRLoader not in use
GltfStart ==
  /\ GltfInit
  /\ hdrInput = [net |-> "ok"]
  /\ HdrIdle
  /\ CameraIdle
  /\ RendererIdle

GltfSpec == GltfStart /\ [][GltfNext]_vars

\* a freshly constructed HDRLoader, the glTFLoader not in use
HdrStart ==
  /\ HdrInit
  /\ GltfIdle
  /\ CameraIdle
  /\ RendererIdle

HdrSpec == HdrStart /\ [][HdrNext]_vars

\* parseHDR is synchronous straight-line code: once load() has been called
\* the decoder keeps taking its next step for as long as it has one
HdrFairSpec == HdrSpec /\ WF_vars(HdrNext)

\* a freshly constructed Camera, the loaders not in use
CameraStart ==
  /\ CameraIdle
  /\ GltfIdle
  /\ hdrInput = [net |-> "ok"]
  /\ HdrIdle
  /\ RendererIdle

\* the loaders and the camera, none of them in use
OthersIdle ==
  /\ GltfIdle
  /\ hdrInput = [net |-> "ok"]
  /\ HdrIdle
  /\ CameraIdle

\* a freshly constructed RollingAverage
RollStart == RollInit /\ OthersIdle /\ MipIdle /\ TimeIdle /\ InitIdle

RollSpec == RollStart /\ [][RollNext]_vars

\* a texture just created from its source
MipStart == MipInit /\ OthersIdle /\ RollIdle /\ TimeIdle /\ InitIdle

MipSpec == MipStart /\ [][MipNext]_vars

\* a renderer whose device has just been requested
TimeStart == TimeInit /\ OthersIdle /\ RollIdle /\ MipIdle /\ InitIdle

\* the page has loaded its script
InitStart == InitInit /\ OthersIdle /\ RollIdle /\ MipIdle /\ TimeIdle

InitSpec == InitStart /\ [][InitNext]_vars

\* a pending map settles, and a promise that has resolved runs its then
\* callback
TimeSpec ==
  /\ TimeStart
  /\ [][TimeNext]_vars
  /\ WF_vars(MapResolved \/ MapRejected)
  /\ WF_vars(OnMapped)

CameraSpec == CameraStart /\ [][CameraNext]_vars

PointerSpec == CameraStart /\ [][PointerNext]_vars

\* HDRLoader.hdr, part_001 132-138
hdr == [width |-> width, height |-> height, data |-> data]

(***************************************************************************)
(* Properties of HDRLoader                                                 *)
(***************************************************************************)
File == hdrInput.file

\* the header names 32-bit_rle_rgbe and has its resolution line, the body
\* encodes exactly `height` scanlines, and the file arrives whole
WellFormed ==
  /\ hdrInput.net = "ok"
  /\ File.header = "rgbe"
  /\ File.body = "valid"
  /\ File.rows = File.height
  /\ File.cut = 0

\* C8: decoding a well-formed file never fails and never reads past the
\* input, and when it has finished data holds exactly width * height * 4
\* values, all of them written, for the width and height of the header.
C8_ValidInputDecodes ==
  WellFormed
    => /\ hdrPc # "rejected"
       /\ hdrPc = "plane" /\ plane < 4 /\ position < width
            => hdrIndex < Len(hdrInput.bytes)
       /\ hdrPc = "fulfilled"
            => /\ width = File.width
               /\ height = File.height
               /\ hdr.data.defined
               /\ Len(hdr.data.value) = File.width * File.height * 4
               /\ currentPixel = File.width * File.height * 4

C8_Witness ==
  /\ WellFormed
  /\ hdrPc = "fulfilled"
  /\ File.width >= 2
  /\ File.height >= 2
  /\ Len(hdr.data.value) = 4 * File.width * File.height

\* the four bytes at the read position are [2, 2, hi, lo] with
\* (hi << 8 | lo) = width
GoodDescriptorAhead ==
  /\ hdrIndex + 4 <= Len(hdrInput.bytes)
  /\ \E hi, lo \in 0..255 :
       /\ SubSeq(hdrInput.bytes, hdrIndex + 1, hdrIndex + 4) = <<2, 2, hi, lo>>
       /\ hi * 256 + lo = width

\* C9: whenever the decoder starts a scanline whose descriptor is not
\* [2, 2, hi, lo] with (hi << 8 | lo) = width, it fails there with the
\* unsupported-encoding error; a file whose scanline number badRow has such
\* a descriptor is decoded up to that scanline, never beyond, and never
\* succeeds.
C9_BadDescriptor ==
  /\ [](File.body \in {"badMagic", "badWidth"} /\ hdrInput.net = "ok"
          => /\ hdrPc # "fulfilled"
             /\ hdrPc = "plane"
                  => currentPixel < 4 * File.width * (File.badRow - 1)
             /\ hdrPc = "rejected"
                  => /\ hdrError = "UnsupportedEncoding"
                     /\ currentPixel = 4 * File.width * (File.badRow - 1))
  /\ [][(hdrPc = "scanlines" /\ hdrIndex < Len(hdrInput.bytes)
           /\ ~GoodDescriptorAhead)
          => (hdrPc' = "rejected" /\ hdrError' = "UnsupportedEncoding")]_vars

C9_Witness ==
  /\ File.badRow = 2
  /\ File.body = "badWidth"
  /\ hdrPc = "rejected"
  /\ hdrError = "UnsupportedEncoding"
  /\ currentPixel = 4 * File.width

\* the bytes of a row of pixels in the order of the scanline array
Flatten(row) ==
  [k \in 1..(4 * Len(row)) |-> row[((k - 1) \div 4) + 1][((k - 1) % 4) + 1]]

\* the scanline being decoded, counted from 0
CurrentRow == currentPixel \div (4 * width)

\* C10: when the four planes of a scanline have been decoded, the component
\* bytes of every pixel x are the (R, G, B, E) the scanline was encoded
\* from, for every way its planes were cut into repeat and literal runs.
C10_DecodeInvertsEncode ==
  (/\ hdrPc = "plane"
   /\ plane = 4
   /\ File.cut = 0 \/ CurrentRow < File.rows - 1)
    => scanline = Flatten(RowPixels(File.pattern, File.width, CurrentRow))

C10_Witness ==
  /\ hdrPc = "plane"
  /\ plane = 4
  /\ currentPixel > 0
  /\ File.width >= 2
  /\ Len(File.runs) >= 2
  /\ \E j, k \in 1..Len(File.runs) : File.asRepeat[j] /\ ~File.asRepeat[k]
  /\ \E col, other \in 1..File.width : File.pattern[col] # File.pattern[other]

\* pixel k of the image the file was encoded from, in scanline order
PixelAt(k) ==
  RowPixels(File.pattern, File.width, k \div File.width)[(k % File.width) + 1]

\* (R * scale, G * scale, B * scale, 1.0) with scale = 2^(E - 128) / 255
Expected(p) == <<Float(p[1], p[4]), Float(p[2], p[4]), Float(p[3], p[4]), One>>

\* C11: every pixel k already reconstructed has data[4k .. 4k+3] =
\* (R * scale, G * scale, B * scale, 1.0) for the (R, G, B, E) of pixel k in
\* scanline order; and the 2x2 file of constant (255, 0, 0, 128) pixels
\* decodes to four pixels (255/255, 0, 0, 1.0).
C11_Reconstruction ==
  (WellFormed /\ data.defined)
    => /\ \A k \in 0..((currentPixel \div 4) - 1) :
            SubSeq(data.value, 4 * k + 1, 4 * k + 4) = Expected(PixelAt(k))
       /\ (/\ hdrPc = "fulfilled"
           /\ File.width = 2
           /\ File.height = 2
           /\ File.pattern = <<1, 1>>)
            => hdr = [width |-> 2, height |-> 2,
                      data |-> Assigned(
                        [k \in 1..16 |-> IF k % 4 \in {1, 0}
                                         THEN [m |-> 255, e |-> 128]
                                         ELSE [m |-> 0, e |-> 0]])]

C11_Witness ==
  /\ WellFormed
  /\ hdrPc = "fulfilled"
  /\ File.width = 2
  /\ File.height = 2
  /\ File.pattern = <<1, 1>>
  /\ hdr.data.value[13] = [m |-> 255, e |-> 128]
  /\ hdr.data.value[16] = One

\* two consecutive line feeds occur in the bytes
HasTerminator(bytes) ==
  \E k \in 1..(Len(bytes) - 1) : bytes[k] = LF /\ bytes[k + 1] = LF

\* C12: an input without a header terminator (two consecutive line feeds)
\* fails with the truncated-header error and never gets as far as the body.
C12_TruncatedHeader ==
  (hdrInput.net = "ok" /\ ~HasTerminator(hdrInput.bytes))
    => /\ hdrPc \notin {"scanlines", "plane", "fulfilled"}
       /\ hdrPc = "rejected" => hdrError = "TruncatedHeader"

\* C13: the position inside a component plane never exceeds width, and a
\* file with a run that would carry it past width fails with the
\* corrupt-scanline error.
C13_RunWithinWidth ==
  /\ hdrPc = "plane" => position <= width
  /\ (hdrInput.net = "ok" /\ File.body = "overrun")
       => /\ hdrPc # "fulfilled"
          /\ hdrPc = "rejected" => hdrError = "CorruptScanline"

\* C14: after a failed load the hdr accessor exposes no width, no height
\* and no pixel buffer.
C14_NoPartialImage ==
  hdrPc = "rejected"
    => hdr = [width |-> Undef, height |-> Undef, data |-> Unassigned]

\* C23: the body is decoded as exactly `height` scanlines: no scanline is
\* started once height scanlines have been written, even when input bytes
\* remain, and a load that succeeds has written width * height pixels.
C23_ExactlyHeightScanlines ==
  (hdrInput.net = "ok" /\ File.header = "rgbe")
    => /\ hdrPc = "plane" => currentPixel < 4 * width * height
       /\ hdrPc = "fulfilled" => currentPixel = 4 * width * height

\* C24: on every input parseHDR returns or throws after finitely many steps.
C24_Terminates == <>(hdrPc \in {"fulfilled", "rejected"})

(***************************************************************************)
(* Properties of Camera                                                    *)
(***************************************************************************)
\* the orientation of the camera about its target: the angles, the
\* quaternion made of them, and the eye and up vectors turned by it
orientation == <<yaw, pitch, rotation, eye, up>>

C26_MoveNeedsHeldButton ==
  [][(MouseMove /\ <<orientation, distance, target>>'
                     # <<orientation, distance, target>>)
       => (controlled /\ pressed = "withAlt")]_vars

RECURSIVE SumOf(_)
SumOf(seq) == IF seq = << >> THEN Finite(0) ELSE Plus(seq[1], SumOf(Tail(seq)))

\* the last min(n, sampleCount) of the n values assigned
Window ==
  LET n == Len(assigned)
      k == IF n < sampleCount THEN n ELSE sampleCount
  IN SubSeq(assigned, n - k + 1, n)

\* C27: after n >= 1 assignments total is the sum of the stored samples,
\* at most sampleCount samples are stored, and the value read back is the
\* mean of the last min(n, sampleCount) values assigned: their sum, total,
\* over their number, samples.length.
C27_RollingMean ==
  Len(assigned) >= 1
    => /\ total = SumOf(samples)
       /\ Len(samples) <= sampleCount
       /\ value = [total |-> SumOf(Window), length |-> Len(Window)]

(***************************************************************************)
(* Properties of mipmap generation                                         *)
(***************************************************************************)
\* the levels the passes of one layer render into, in the order encoded
RECURSIVE TargetsOf(_, _)
TargetsOf(layer, ps) ==
  IF ps = << >> THEN << >>
  ELSE (IF ps[1].layer = layer THEN <<ps[1].target>> ELSE << >>)
       \o TargetsOf(layer, Tail(ps))

\* C28: for a texture created with mipLevelCount =
\* calculateMipLevelCount(width, height), every pass renders into a level
\* below mipLevelCount from the level just below it, the levels rendered
\* into are 1, 2, ... in increasing order, each once (for each layer), and
\* when the loop has ended they are all of 1 .. mipLevelCount - 1.
C28_MipLevels ==
  /\ \A k \in 1..Len(passes) :
       /\ passes[k].target \in 1..(texture.mipLevelCount - 1)
       /\ passes[k].source = passes[k].target - 1
  /\ \A layer \in 0..(texture.depthOrArrayLayers - 1) :
       LET targets == TargetsOf(layer, passes) IN
       /\ targets = [k \in 1..Len(targets) |-> k]
       /\ mipPc = "done" => Len(targets) = texture.mipLevelCount - 1

C28_Witness ==
  /\ mipPc = "done"
  /\ texture.width = 5
  /\ texture.height = 3
  /\ texture.depthOrArrayLayers = 1
  /\ Len(passes) = 2

(***************************************************************************)
(* Properties of the timestamp result buffer                               *)
(***************************************************************************)
\* C29: mapAsync is called on the result buffer only while it is unmapped,
\* a copy into it is encoded only in a frame that finds it unmapped, every
\* map that succeeded is unmapped again (at most one is outstanding), and a
\* buffer that is pending or mapped becomes unmapped again.
C29_ResultBuffer ==
  /\ [](/\ \A k \in 1..Len(mapRequests) : mapRequests[k].state = "unmapped"
        /\ \A k \in 1..Len(copies) : copies[k].state = "unmapped"
        /\ maps = unmaps + (IF mapState = "mapped" THEN 1 ELSE 0))
  /\ (mapState # "unmapped") ~> (mapState = "unmapped")

\* a frame found the buffer busy and left it alone, and two maps have been
\* read and unmapped
C29_Witness ==
  /\ hasTimestamp
  /\ mapState = "unmapped"
  /\ unmaps >= 2
  /\ Len(copies) < frame
  /\ Len(mapRequests) = Len(copies)

(***************************************************************************)
(* Properties of start-up                                                  *)
(***************************************************************************)
\* C30: when a step of the asynchronous initialisation raises, the catch
\* block of the entry point runs and logs the error, and the frame loop is
\* not started.
C30_InitErrorCaught ==
  renderPromise = "rejected"
    => /\ ~running
       /\ caught
       /\ logged

====
